---- MODULE Spec2Model ----
(***************************************************************************)
(* CloudStudio monitor: the scheduler, the probe executor and the monitor  *)
(* config API, as state machines.                                          *)
(*                                                                         *)
(* Two builds of the program are modelled.  build = "modular" is the       *)
(* modular build (services/scheduler.ts, services/monitor.ts,              *)
(* api/monitors.ts, services/kv.ts); build = "single" is the single-file   *)
(* build.  The builds differ in the places the actions branch on build.    *)
(*                                                                         *)
(* Time is a discrete clock, MinuteUnits clock units to the minute.        *)
(***************************************************************************)
EXTENDS Integers, Sequences, FiniteSets, TLC

\* ------------------------------------------------------------------ bounds
MinuteUnits == 2          \* clock units per minute
MaxTime == 4              \* the clock stops here
NumIds == 2               \* monitor configs ever created
MaxRestarts == 1          \* scheduler restart requests served
MaxUpdates == 1           \* config update requests served
MaxInputInterval == 2     \* intervals 1..MaxInputInterval are sent by API clients
MaxSessions == 1          \* sessions ever created
MaxLogins == 4            \* logins that reach the password or the rate limit
NumLoginRequests == 3     \* login requests of one address served at the same time
LockoutUnits == 2         \* LOGIN_LOCKOUT_MINUTES in clock units
SessionUnits == 2         \* SESSION_EXPIRE_HOURS in clock units
MAX_LOGIN_ATTEMPTS == 2   \* APP_CONFIG.MAX_LOGIN_ATTEMPTS (environment; default 5)
MaxConfigs == 1           \* configs created by the requests with full bodies
HourUnits == 2            \* clock units per hour of the statistics clock
MaxStamp == 51            \* the statistics clock runs from 0 to here
MaxRecords == 2           \* history records of the monitor whose statistics are drawn
MaxLogs == 3              \* system log entries stored
MaxPage == 2              \* pages 1..MaxPage are asked for
MaxLimit == 2             \* page sizes 1..MaxLimit are asked for
MaxMaintRuns == 2         \* maintenance runs
MaxLiveTime == 8          \* the clock of the scheduler left to run stops here
MaxCycleUnits == 3        \* clock units a monitoring cycle lasts at most
LiveMargin == 6           \* clock units in which a config is probed again
MaxBatchTime == 2         \* the clock of the batch specification stops here
MaxCacheOps == 3          \* cache operations in a run
CACHE_TTL_DEFAULT == 2    \* CACHE_TTL.DEFAULT in clock units
HistoryRetentionUnits == 2  \* HISTORY_RETENTION_DAYS in clock units
LogRetentionUnits == 1    \* the 7 days system logs are kept, in clock units

\* ------------------------------------------------------- program constants
MIN_MONITOR_INTERVAL == 1
MAX_MONITOR_INTERVAL == 60
DEFAULT_MONITOR_INTERVAL == 1
MAX_CONCURRENT_MONITORS == 10

NoTime == 0 - 1           \* an absent Date (lastCheck undefined, lastExecutionTime null)
Undefined == "undefined"  \* an absent string field

Ids == 1..NumIds
CycleIds == {"cron", "start"}
Intervals == 1..MaxInputInterval

VARIABLES
  build,              \* "modular" | "single"
  now,                \* the clock
  monitors,           \* KV prefix (monitors, id): id -> MonitorConfig
  history,            \* KV prefix (history, monitorId, id): set of MonitorHistory
  nextId,             \* configs created so far (generateId never repeats)
  isRunning,          \* MonitorScheduler.isRunning
  executionCount,     \* MonitorScheduler.executionCount
  lastExecutionTime,  \* MonitorScheduler.lastExecutionTime
  cronJob,            \* Deno.cron('Monitor Scheduler') is registered
  cronHandledAt,      \* the last minute boundary the cron runtime has dealt with
  cycle,              \* the running executeMonitoringCycle calls, by caller
  lastCycle,          \* what the latest executeMonitoringCycle read and selected
  boot,               \* startApplication: "init" | "starting" | "serving"
  upd,                \* the handleUpdateMonitorAPI request in flight
  restart,            \* the handleSchedulerRestartAPI request in flight
  restarts,           \* restart requests served so far
  updates,            \* update requests served so far
  maxConcurrentMonitors,  \* APP_CONFIG.MAX_CONCURRENT_MONITORS (environment)
  probe,              \* one executeMonitor call chain: config, position, retryCount
  probeLog,           \* what that call chain has done so far (bookkeeping)
  probeHistory,       \* the history records executeMonitor has written, in order
  sessions,           \* KV prefix (sessions, id): Session by session id
  attempts,           \* KV prefix (login_attempts, ip, *): the stored LoginAttempts
  loginLog,           \* the logins answered so far and their outcome (bookkeeping)
  nextSession,        \* sessions created so far (generateSessionId never repeats)
  loggedOut,          \* the sessions a logout has been answered for (bookkeeping)
  req,                \* the protected request in flight
  reply,              \* the last response sent (bookkeeping)
  kvHistory,          \* KV prefix (history, monitorId): the records in key order
  stats,              \* the last MonitorStats generated, and when (bookkeeping)
  systemLogs,         \* KV prefix (system_logs): the entries in key order
  listing,            \* the last getSystemLogs call and its result (bookkeeping)
  maint,              \* performMaintenance: the run in progress and what runs deleted
  logCall,            \* the last operation that logged and how it went on (bookkeeping)
  cache,              \* MemoryCache.cache of the modular build: key -> CacheEntry
  cacheOp,            \* the last cache operation, its result and the sets made (bookkeeping)
  logins              \* handleLogin calls in flight, and the passwords evaluated (bookkeeping)

schedVars == <<now, monitors, history, nextId, isRunning, executionCount,
               lastExecutionTime, cronJob, cronHandledAt, cycle, lastCycle, boot, upd,
               restart, restarts, updates, maxConcurrentMonitors>>

probeVars == <<probe, probeLog, probeHistory>>

apiVars == <<sessions, attempts, loginLog, nextSession, loggedOut, req, reply>>

dataVars == <<kvHistory, stats, systemLogs, listing, maint, logCall, cache, cacheOp,
              logins>>

vars == <<build, schedVars, probeVars, apiVars, dataVars>>

\* ------------------------------------------------------------ pure helpers
Min(a, b) == IF a < b THEN a ELSE b

validateInterval_noMax(interval) ==
  interval >= MIN_MONITOR_INTERVAL

validateInterval(interval) ==
  interval >= MIN_MONITOR_INTERVAL /\ interval <= MAX_MONITOR_INTERVAL

\* (a variant that asks for more than the interval to have passed)
shouldExecuteMonitor_after(config, t) ==
  IF config.lastCheck = NoTime THEN TRUE
  ELSE (t - config.lastCheck) \div MinuteUnits > config.interval

\* MonitorService.shouldExecuteMonitor, evaluated at clock value t.
shouldExecuteMonitor(config, t) ==
  IF config.lastCheck = NoTime THEN TRUE
  ELSE LET timeDiffMinutes == (t - config.lastCheck) \div MinuteUnits
       IN timeDiffMinutes >= config.interval

\* getAllMonitorConfigs returns the configs sorted by createdAt.  Ids are
\* numbered in creation order here, so that is the order of the ids.
SortByCreatedAt(S) ==
  CHOOSE s \in [1..Cardinality(S) -> S] :
    \A i, j \in 1..Cardinality(S) : i < j => s[i] < s[j]

SeqToSet(s) == {s[i] : i \in 1..Len(s)}

\* ---------------------------------------------------------------- strings
\* Strings that the code searches, parses or concatenates are sequences of
\* characters.
\* the literal the retry condition looks for
ABORT_ERROR ==
  <<"A", "b", "o", "r", "t", "E", "r", "r", "o", "r">>
CLOUDSTUDIO_NET ==
  <<"c", "l", "o", "u", "d", "s", "t", "u", "d", "i", "o", ".", "n", "e",
    "t">>
CLOUDSTUDIO_CLUB ==
  <<"c", "l", "o", "u", "d", "s", "t", "u", "d", "i", "o", ".", "c", "l",
    "u", "b">>
\* message of the DOMException (name AbortError) fetch rejects with on controller.abort()
SIGNAL_ABORTED ==
  <<"T", "h", "e", " ", "s", "i", "g", "n", "a", "l", " ", "h", "a", "s",
    " ", "b", "e", "e", "n", " ", "a", "b", "o", "r", "t", "e", "d">>
\* message of the TypeError response.text() rejects with
BODY_READ_ERROR ==
  <<"e", "r", "r", "o", "r", " ", "r", "e", "a", "d", "i", "n", "g", " ",
    "a", " ", "b", "o", "d", "y", " ", "f", "r", "o", "m", " ", "c", "o",
    "n", "n", "e", "c", "t", "i", "o", "n">>
\* the seven-character non-ASCII reason literal, each character written ~
RESPONSE_NOT_AS_EXPECTED ==
  <<"~", "~", "~", "~", "~", "~", "~">>
\* the single-file build's thrown message prefix (three non-ASCII characters, written ~)
INVALID_URL_PREFIX ==
  <<"~", "~", "~", " ", "U", "R", "L", ":", " ">>
\* fetch's TypeError for a url that does not parse
FETCH_INVALID_URL_PREFIX ==
  <<"I", "n", "v", "a", "l", "i", "d", " ", "U", "R", "L", ":", " ", "'">>
\* fetch's TypeError for a connection failure
SEND_ERROR_PREFIX ==
  <<"e", "r", "r", "o", "r", " ", "s", "e", "n", "d", "i", "n", "g", " ",
    "r", "e", "q", "u", "e", "s", "t", " ", "f", "o", "r", " ", "u", "r",
    "l", " ", "(">>
HTTP_PREFIX ==
  <<"H", "T", "T", "P", " ">>
COLON_SPACE ==
  <<":", " ">>
\* target urls of the probed config
UrlWorkspace ==
  <<"h", "t", "t", "p", "s", ":", "/", "/", "c", "l", "o", "u", "d", "s",
    "t", "u", "d", "i", "o", ".", "n", "e", "t", "/", "a", "/", "1", "/",
    "e", "d", "i", "t">>
UrlOther ==
  <<"h", "t", "t", "p", "s", ":", "/", "/", "e", "x", "a", "m", "p", "l",
    "e", ".", "c", "o", "m", "/">>
UrlNoScheme ==
  <<"e", "x", "a", "m", "p", "l", "e", ".", "c", "o", "m">>
UrlAbortError ==
  <<"A", "b", "o", "r", "t", "E", "r", "r", "o", "r">>
\* final urls a redirect can lead to
UrlClub ==
  <<"h", "t", "t", "p", "s", ":", "/", "/", "w", "1", ".", "c", "l", "o",
    "u", "d", "s", "t", "u", "d", "i", "o", ".", "c", "l", "u", "b", "/">>
UrlLogin ==
  <<"h", "t", "t", "p", "s", ":", "/", "/", "e", "x", "a", "m", "p", "l",
    "e", ".", "c", "o", "m", "/", "l", "o", "g", "i", "n">>
SchemeHttp ==
  <<"h", "t", "t", "p">>
SchemeHttps ==
  <<"h", "t", "t", "p", "s">>
StatusTextOK ==
  <<"O", "K">>
StatusTextNotModified ==
  <<"N", "o", "t", " ", "M", "o", "d", "i", "f", "i", "e", "d">>
StatusTextNotFound ==
  <<"N", "o", "t", " ", "F", "o", "u", "n", "d">>
Letters ==
  {"a", "b", "c", "d", "e", "f", "g", "h", "i", "j", "k", "l", "m", "n", "o",
   "p", "q", "r", "s", "t", "u", "v", "w", "x", "y", "z", "A", "B", "C", "D",
   "E", "F", "G", "H", "I", "J", "K", "L", "M", "N", "O", "P", "Q", "R", "S",
   "T", "U", "V", "W", "X", "Y", "Z"}
Digits ==
  <<"0", "1", "2", "3", "4", "5", "6", "7", "8", "9">>

Includes(s, sub) ==
  \E i \in 0..(Len(s) - Len(sub)) : SubSeq(s, i + 1, i + Len(sub)) = sub

RECURSIVE NumberToString(_)
NumberToString(n) ==
  IF n < 10 THEN <<Digits[n + 1]>>
  ELSE NumberToString(n \div 10) \o <<Digits[(n % 10) + 1]>>

\* validateUrl: new URL(url) does not throw.  A url parses without a base
\* only if it starts with a scheme (a letter, then letters, digits, + - .)
\* and a colon; an http(s) url also needs a host after the slashes.
validateUrl(url) ==
  \E i \in 2..Len(url) :
    /\ url[i] = ":"
    /\ \A j \in 1..(i - 1) : url[j] # ":"
    /\ url[1] \in Letters
    /\ \A j \in 2..(i - 1) : url[j] \in Letters \cup SeqToSet(Digits) \cup {"+", "-", "."}
    /\ (SubSeq(url, 1, i - 1) \in {SchemeHttp, SchemeHttps})
         => (\E k \in (i + 1)..Len(url) : url[k] \notin {"/", "\\"})

ConfigUrls == {UrlWorkspace, UrlOther, UrlNoScheme, UrlAbortError}

\* A url that parses.
UrlShort ==
  <<"h", "t", "t", "p", ":", "/", "/", "a">>

\* The bodies of create requests: url absent (<<>>), parsing or not parsing;
\* interval absent (0), in range, below or above the range.
CreateBodies ==
  { [url |-> UrlShort, interval |-> i, enabled |-> e] :
      i \in {0} \cup Intervals, e \in BOOLEAN }
  \cup { [url |-> <<>>, interval |-> 0, enabled |-> TRUE],
         [url |-> UrlNoScheme, interval |-> 0, enabled |-> TRUE],
         [url |-> UrlShort, interval |-> 0 - 1, enabled |-> TRUE],
         [url |-> UrlShort, interval |-> MAX_MONITOR_INTERVAL + 1, enabled |-> TRUE] }

\* The bodies of update requests: every field is optional.
UpdateBodies ==
  { [url |-> <<>>, interval |-> i, enabled |-> e] :
      i \in {0} \cup Intervals, e \in {"undefined", "true", "false"} }
  \cup { [url |-> UrlShort, interval |-> 0, enabled |-> "undefined"],
         [url |-> UrlNoScheme, interval |-> 0, enabled |-> "undefined"],
         [url |-> <<>>, interval |-> 0 - 1, enabled |-> "undefined"],
         [url |-> <<>>, interval |-> MAX_MONITOR_INTERVAL + 1, enabled |-> "undefined"] }

\* The terminal results a probe can return (status, error); see the probe
\* executor below for how each arises.
ProbeOutcomes ==
  { [status |-> "success", error |-> Undefined],
    [status |-> "error", error |-> "HTTP 403: Forbidden"] }

KvOutcomes == BOOLEAN   \* result.ok of a KV write

\* A config as handleCreateMonitorAPI builds it: no status, no lastCheck.
NewConfig(url, interval, enabled) ==
  [ url |-> url, interval |-> interval, enabled |-> enabled, lastCheck |-> NoTime,
    status |-> Undefined, lastError |-> Undefined ]

IdleCycle ==
  [ pc |-> "idle", tick |-> 0, tickTime |-> NoTime, queue |-> <<>>, i |-> 0,
    inflight |-> {}, done |-> <<>>, results |-> <<>>, k |-> 0, wbConfig |-> <<>> ]

NoCycle == [ tick |-> 0, tickTime |-> NoTime, configs |-> <<>>, executed |-> {},
             threw |-> FALSE ]

IdleUpdate == [ pc |-> "idle", id |-> 0, existingConfig |-> <<>> ]

\* ------------------------------------------------------------------- Init
\* The state of a process started on a KV store that holds the configs store,
\* with APP_CONFIG.MAX_CONCURRENT_MONITORS one of limits.
SchedInitWith(b, store, limits) ==
  /\ build = b
  /\ now = 0
  /\ monitors = store
  /\ nextId = Cardinality(DOMAIN store)
  /\ history = {}
  /\ isRunning = FALSE
  /\ executionCount = 0
  /\ lastExecutionTime = NoTime
  /\ cronJob = FALSE
  /\ cronHandledAt = NoTime
  /\ cycle = [c \in CycleIds |-> IdleCycle]
  /\ lastCycle = NoCycle
  /\ boot = "init"
  /\ upd = IdleUpdate
  /\ restart = "idle"
  /\ restarts = 0
  /\ updates = 0
  /\ maxConcurrentMonitors \in limits

SchedInitOn(b, store) ==
  SchedInitWith(b, store, IF b = "single" THEN {1, MAX_CONCURRENT_MONITORS}
                          ELSE {MAX_CONCURRENT_MONITORS})

\* A fresh KV store; the single-file build's initializeDefaultConfig puts
\* 'default-cloudstudio' (interval 1, enabled) into an empty store at startup.
SchedInit(b) ==
  SchedInitOn(b, IF b = "single" THEN (1 :> NewConfig(UrlWorkspace, 1, TRUE)) ELSE <<>>)


\* ------------------------------------------------------------- scheduler
\* What start() does once its first executeMonitoringCycle has returned:
\* Deno.cron registers the job; registering the name a second time throws,
\* which leaves the first registration in place.  Until then the caller of
\* start() (startApplication, or the restart request) is waiting.
AfterCycle(c, finished) ==
  IF c = "start"
  THEN IF finished
       THEN /\ cronJob' = TRUE
            /\ cronHandledAt' = IF cronJob THEN cronHandledAt ELSE now
            /\ boot' = "serving"
            /\ restart' = "idle"
       ELSE /\ boot' = IF boot = "init" THEN "starting" ELSE boot
            /\ restart' = IF restart = "waiting" THEN "starting" ELSE restart
            /\ UNCHANGED <<cronJob, cronHandledAt>>
  ELSE UNCHANGED <<cronJob, cronHandledAt, boot, restart>>

Batch(queue, i, maxConcurrent) == SubSeq(queue, i + 1, Min(i + maxConcurrent, Len(queue)))

\* executeMonitorTasks: Math.min(configs.length, limit); the modular build's
\* scheduler has the limit as the literal 10, the single-file build reads
\* APP_CONFIG.MAX_CONCURRENT_MONITORS.
MaxConcurrent(queue) ==
  Min(Len(queue), IF build = "modular" THEN MAX_CONCURRENT_MONITORS
                  ELSE maxConcurrentMonitors)

\* MonitorScheduler.executeMonitoringCycle past its isRunning check, up to the
\* point where the probes of the first batch are in flight.
RunCycle(c) ==
  LET configs == monitors
      enabledConfigs ==
        SortByCreatedAt({m \in DOMAIN configs : configs[m].enabled})
      configsToExecute ==
        IF build = "modular"
        THEN SelectSeq(enabledConfigs, LAMBDA m : shouldExecuteMonitor(configs[m], now))
        ELSE enabledConfigs
  IN /\ lastExecutionTime' = now
     /\ executionCount' = executionCount + 1
     /\ lastCycle' = [ tick |-> executionCount + 1, tickTime |-> now,
                       configs |-> configs, executed |-> SeqToSet(configsToExecute),
                       threw |-> FALSE ]
     /\ cycle' = [cycle EXCEPT ![c] =
          IF Len(configsToExecute) = 0 THEN IdleCycle
          ELSE [ IdleCycle EXCEPT
                   !.pc = "probing", !.tick = executionCount + 1, !.tickTime = now,
                   !.queue = configsToExecute,
                   !.inflight = SeqToSet(Batch(configsToExecute, 0,
                                               MaxConcurrent(configsToExecute))) ]]

\* (a variant without the catch block: the exception leaves the cycle)
RunCycleThrows_uncaught(c) ==
  /\ lastExecutionTime' = now
  /\ executionCount' = executionCount + 1
  /\ lastCycle' = [ tick |-> executionCount + 1, tickTime |-> now, configs |-> <<>>,
                    executed |-> {}, threw |-> TRUE ]
  /\ cycle' = [cycle EXCEPT ![c] = [IdleCycle EXCEPT !.pc = "thrown"]]

\* executeMonitoringCycle when something inside its try block throws before
\* the probes start (reading the configs fails): the catch block logs the
\* error and the cycle returns.
RunCycleThrows(c) ==
  /\ lastExecutionTime' = now
  /\ executionCount' = executionCount + 1
  /\ lastCycle' = [ tick |-> executionCount + 1, tickTime |-> now, configs |-> <<>>,
                    executed |-> {}, threw |-> TRUE ]
  /\ cycle' = [cycle EXCEPT ![c] = IdleCycle]

\* startApplication -> monitorScheduler.start().  The clock starts within the
\* minute before the process does.
Start ==
  /\ boot = "init"
  /\ now < MinuteUnits
  /\ isRunning' = TRUE
  /\ RunCycle("start")
  /\ AfterCycle("start", cycle'["start"].pc = "idle")
  /\ UNCHANGED <<probeVars, apiVars, dataVars, build, now, monitors, history, nextId, upd, restarts, updates,
                 maxConcurrentMonitors>>

\* start() when its first cycle throws inside the try block.
StartThrows ==
  /\ boot = "init"
  /\ now < MinuteUnits
  /\ isRunning' = TRUE
  /\ RunCycleThrows("start")
  /\ AfterCycle("start", TRUE)
  /\ UNCHANGED <<probeVars, apiVars, dataVars, build, now, monitors, history, nextId, upd, restarts, updates,
                 maxConcurrentMonitors>>

\* The Deno.cron callback when its cycle throws inside the try block.
CronFireThrows ==
  /\ cronJob
  /\ now % MinuteUnits = 0
  /\ cronHandledAt < now
  /\ cycle["cron"].pc = "idle" /\ isRunning
  /\ cronHandledAt' = now
  /\ RunCycleThrows("cron")
  /\ UNCHANGED <<probeVars, apiVars, dataVars, build, now, monitors, history, nextId, isRunning, cronJob, boot,
                 upd, restart, restarts, updates, maxConcurrentMonitors>>

\* The Deno.cron callback at a minute boundary.  The runtime does not start
\* the callback while its previous invocation is still running.
CronFire ==
  /\ cronJob
  /\ now % MinuteUnits = 0
  /\ cronHandledAt < now
  /\ cronHandledAt' = now
  /\ IF cycle["cron"].pc = "idle" /\ isRunning
     THEN RunCycle("cron")
     ELSE UNCHANGED <<lastExecutionTime, executionCount, lastCycle, cycle>>
  /\ UNCHANGED <<probeVars, apiVars, dataVars, build, now, monitors, history, nextId, isRunning, cronJob, boot,
                 upd, restart, restarts, updates, maxConcurrentMonitors>>

\* (a variant that takes every batch for the last)
MoreBatches_never(queue, i, maxConcurrent) == i + maxConcurrent < 0

\* executeMonitorTasks: i + maxConcurrent < configs.length, another batch
\* follows the one at i.
MoreBatches(queue, i, maxConcurrent) == i + maxConcurrent < Len(queue)

\* One probe of the batch returns: executeMonitor has produced its result and
\* written the history record (saveMonitorHistoryRecord swallows a failed
\* write).  With the last probe of the batch Promise.all resolves: the batch's
\* results are appended in batch order, and either the pause before the next
\* batch begins or, after the last batch, updateMonitorStatuses.
ProbeReturn(c, m, outcome, ok) ==
  LET cy == cycle[c]
      result == [ configId |-> m, status |-> outcome.status, error |-> outcome.error,
                  timestamp |-> now ]
      done == (m :> result) @@ cy.done
      maxConcurrent == MaxConcurrent(cy.queue)
      batch == Batch(cy.queue, cy.i, maxConcurrent)
      results == cy.results \o [j \in 1..Len(batch) |-> done[batch[j]]]
  IN /\ cy.pc = "probing"
     /\ m \in cy.inflight
     /\ history' = IF ok
                   THEN history \cup {[ monitorId |-> m, tick |-> cy.tick,
                                        status |-> outcome.status ]}
                   ELSE history
     /\ cycle' = [cycle EXCEPT ![c] =
          IF cy.inflight # {m}
          THEN [cy EXCEPT !.inflight = cy.inflight \ {m}, !.done = done]
          ELSE IF MoreBatches(cy.queue, cy.i, maxConcurrent)
          THEN [cy EXCEPT !.inflight = {}, !.done = <<>>, !.results = results,
                          !.pc = "pause"]
          ELSE [cy EXCEPT !.inflight = {}, !.done = <<>>, !.results = results,
                          !.pc = "wbRead", !.k = 1]]
     /\ UNCHANGED <<probeVars, apiVars, dataVars, build, now, monitors, nextId, isRunning, executionCount,
                    lastExecutionTime, cronJob, cronHandledAt, lastCycle, boot, upd,
                    restart, restarts, updates, maxConcurrentMonitors>>

\* executeMonitorTasks after the 1 s pause between batches.
NextBatch(c) ==
  LET cy == cycle[c]
      maxConcurrent == MaxConcurrent(cy.queue)
  IN /\ cy.pc = "pause"
     /\ cycle' = [cycle EXCEPT ![c] =
          [cy EXCEPT !.pc = "probing", !.i = cy.i + maxConcurrent,
                     !.inflight = SeqToSet(Batch(cy.queue, cy.i + maxConcurrent,
                                                 maxConcurrent))]]
     /\ UNCHANGED <<probeVars, apiVars, dataVars, build, now, monitors, history, nextId, isRunning, executionCount,
                    lastExecutionTime, cronJob, cronHandledAt, lastCycle, boot, upd,
                    restart, restarts, updates, maxConcurrentMonitors>>

\* updateMonitorStatuses moves on to the next result, or returns.
WriteBackNext(c) ==
  LET cy == cycle[c]
      finished == cy.k >= Len(cy.results)
  IN /\ cycle' = [cycle EXCEPT ![c] =
          IF finished THEN IdleCycle
          ELSE [cy EXCEPT !.pc = "wbRead", !.k = cy.k + 1, !.wbConfig = <<>>]]
     /\ AfterCycle(c, finished)

\* updateMonitorStatuses: getMonitorConfig(result.configId)
WriteBackRead(c) ==
  LET cy == cycle[c]
      result == cy.results[cy.k]
  IN /\ cy.pc = "wbRead"
     /\ IF result.configId \in DOMAIN monitors
        THEN /\ cycle' = [cycle EXCEPT ![c] =
                  [cy EXCEPT !.pc = "wbSave", !.wbConfig = monitors[result.configId]]]
             /\ UNCHANGED <<cronJob, cronHandledAt, boot, restart>>
        ELSE WriteBackNext(c)
     /\ UNCHANGED <<probeVars, apiVars, dataVars, build, now, monitors, history, nextId, isRunning, executionCount,
                    lastExecutionTime, lastCycle, upd, restarts, updates, maxConcurrentMonitors>>

\* The fields updateMonitorStatuses overwrites from the result.
WriteBackNoLastCheck(config, result) ==
  [config EXCEPT !.status = result.status, !.lastError = result.error]

WriteBackConfig(config, result) ==
  [config EXCEPT !.lastCheck = result.timestamp, !.status = result.status,
                 !.lastError = result.error]

\* saveMonitorConfig: the single-file build validates before it writes
\* (the name and id it also checks are not modelled here); the modular
\* build's KVService.saveMonitorConfig writes what it is given.
SaveAccepted(config) ==
  build = "single" =>
    /\ config.url # <<>>
    /\ validateUrl(config.url)
    /\ validateInterval(config.interval)

\* updateMonitorStatuses: saveMonitorConfig(config); ok is the KV write's result.
WriteBackSave(c, ok) ==
  LET cy == cycle[c]
      result == cy.results[cy.k]
      config == WriteBackConfig(cy.wbConfig, result)
  IN /\ cy.pc = "wbSave"
     /\ monitors' = IF ok /\ SaveAccepted(config)
                    THEN (result.configId :> config) @@ monitors
                    ELSE monitors
     /\ WriteBackNext(c)
     /\ UNCHANGED <<probeVars, apiVars, dataVars, build, now, history, nextId, isRunning, executionCount,
                    lastExecutionTime, lastCycle, upd, restarts, updates, maxConcurrentMonitors>>

\* --------------------------------------------------------- monitor config API
\* HTTP requests are served once startApplication has reached Deno.serve.

\* The checks handleCreateMonitorAPI makes before it builds the config.
CreateValid(b, bodyUrl, bodyInterval) ==
  /\ bodyUrl # <<>>
  /\ b = "modular" =>
       /\ validateUrl(bodyUrl)
       /\ validateInterval(IF bodyInterval = 0 THEN DEFAULT_MONITOR_INTERVAL
                           ELSE bodyInterval)

\* handleCreateMonitorAPI.  bodyInterval = 0 stands for a body whose interval
\* is 0 or absent (body.interval || DEFAULT_MONITOR_INTERVAL).  A request
\* that fails a check is answered 400 and changes nothing.
CreateMonitor(bodyUrl, bodyInterval, bodyEnabled) ==
  LET interval == IF bodyInterval = 0 THEN DEFAULT_MONITOR_INTERVAL ELSE bodyInterval
      config == NewConfig(bodyUrl, interval, bodyEnabled)
      id == nextId + 1
  IN /\ boot = "serving"
     /\ nextId < NumIds
     /\ CreateValid(build, bodyUrl, bodyInterval)
     /\ SaveAccepted(config)
     /\ nextId' = id
     /\ monitors' = (id :> config) @@ monitors
     /\ UNCHANGED <<probeVars, apiVars, dataVars, build, now, history, isRunning, executionCount, lastExecutionTime,
                    cronJob, cronHandledAt, cycle, lastCycle, boot, upd, restart,
                    restarts, updates, maxConcurrentMonitors>>

\* handleUpdateMonitorAPI, first half: getMonitorConfig(id).
UpdateRead(id) ==
  /\ boot = "serving"
  /\ upd.pc = "idle"
  /\ updates < MaxUpdates
  /\ id \in DOMAIN monitors
  /\ updates' = updates + 1
  /\ upd' = [ pc |-> "save", id |-> id, existingConfig |-> monitors[id] ]
  /\ UNCHANGED <<probeVars, apiVars, dataVars, build, now, monitors, history, nextId, isRunning, executionCount,
                 lastExecutionTime, cronJob, cronHandledAt, cycle, lastCycle, boot,
                 restart, restarts, maxConcurrentMonitors>>

\* The config handleUpdateMonitorAPI saves: the existing config it read with
\* the supplied fields replaced.  bodyInterval = 0 and bodyEnabled =
\* "undefined" stand for fields the body does not have.
UpdatedConfig(existingConfig, bodyUrl, bodyInterval, bodyEnabled) ==
  [existingConfig EXCEPT
     !.url = IF bodyUrl # <<>> THEN bodyUrl ELSE existingConfig.url,
     !.interval = IF bodyInterval # 0 THEN bodyInterval ELSE existingConfig.interval,
     !.enabled = IF bodyEnabled # "undefined" THEN bodyEnabled = "true"
                 ELSE existingConfig.enabled]

\* The checks handleUpdateMonitorAPI makes on the fields the body supplies.
UpdateValid(b, bodyUrl, bodyInterval) ==
  b = "modular" =>
    /\ bodyUrl # <<>> => validateUrl(bodyUrl)
    /\ bodyInterval # 0 => validateInterval(bodyInterval)

\* handleUpdateMonitorAPI, second half: request.json(), validation,
\* saveMonitorConfig(updatedConfig); ok is the KV write's result.
UpdateSave(bodyUrl, bodyInterval, bodyEnabled, ok) ==
  LET updatedConfig == UpdatedConfig(upd.existingConfig, bodyUrl, bodyInterval, bodyEnabled)
  IN /\ upd.pc = "save"
     /\ monitors' = IF UpdateValid(build, bodyUrl, bodyInterval) /\ ok /\ SaveAccepted(updatedConfig)
                    THEN (upd.id :> updatedConfig) @@ monitors
                    ELSE monitors
     /\ upd' = IdleUpdate
     /\ UNCHANGED <<probeVars, apiVars, dataVars, build, now, history, nextId, isRunning, executionCount,
                    lastExecutionTime, cronJob, cronHandledAt, cycle, lastCycle, boot,
                    restart, restarts, updates, maxConcurrentMonitors>>

\* handleDeleteMonitorAPI -> deleteMonitorConfig.  The single-file build also
\* deletes the monitor's history (deleteMonitorHistory).
DeleteMonitor(id) ==
  /\ boot = "serving"
  /\ id \in DOMAIN monitors
  /\ monitors' = [m \in DOMAIN monitors \ {id} |-> monitors[m]]
  /\ history' = IF build = "single" THEN {h \in history : h.monitorId # id}
                ELSE history
  /\ UNCHANGED <<probeVars, apiVars, dataVars, build, now, nextId, isRunning, executionCount, lastExecutionTime,
                 cronJob, cronHandledAt, cycle, lastCycle, boot, upd, restart,
                 restarts, updates, maxConcurrentMonitors>>

\* ------------------------------------------------- scheduler restart request
\* handleSchedulerRestartAPI (single-file build): monitorScheduler.stop()
RestartStop ==
  /\ build = "single"
  /\ boot = "serving"
  /\ restart = "idle"
  /\ restarts < MaxRestarts
  /\ restarts' = restarts + 1
  /\ isRunning' = FALSE
  /\ restart' = "waiting"
  /\ UNCHANGED <<probeVars, apiVars, dataVars, build, now, monitors, history, nextId, executionCount,
                 lastExecutionTime, cronJob, cronHandledAt, cycle, lastCycle, boot,
                 upd, updates, maxConcurrentMonitors>>

\* handleSchedulerRestartAPI after its 1 s wait: monitorScheduler.start()
RestartStart ==
  /\ restart = "waiting"
  /\ isRunning' = TRUE
  /\ IF isRunning
     THEN /\ restart' = "idle"
          /\ UNCHANGED <<lastExecutionTime, executionCount, lastCycle, cycle, cronJob,
                         cronHandledAt, boot>>
     ELSE /\ RunCycle("start")
          /\ AfterCycle("start", cycle'["start"].pc = "idle")
  /\ UNCHANGED <<probeVars, apiVars, dataVars, build, now, monitors, history, nextId, upd, restarts, updates,
                 maxConcurrentMonitors>>

\* ----------------------------------------------------------------- the clock
\* Time passes; a minute boundary is not left before the cron runtime has
\* dealt with it.
AdvanceTo(limit) ==
  /\ now < limit
  /\ boot = "init" => now + 1 < MinuteUnits
  /\ (cronJob /\ now % MinuteUnits = 0) => cronHandledAt = now
  /\ now' = now + 1
  /\ UNCHANGED <<probeVars, apiVars, dataVars, build, monitors, history, nextId, isRunning, executionCount,
                 lastExecutionTime, cronJob, cronHandledAt, cycle, lastCycle, boot, upd,
                 restart, restarts, updates, maxConcurrentMonitors>>

Advance == AdvanceTo(MaxTime)


\* ======================================================= the probe executor
\* executeMonitor, attempt by attempt.  Strings that the code searches or
\* concatenates are sequences of characters.

MaxProbes == 2            \* executeMonitor calls made on the probed config

\* response.url after redirect: 'follow'
FinalUrls(url) == {url, UrlClub, UrlLogin}

HttpStatuses == {200, 304, 404}

statusText(status) ==
  CASE status = 200 -> StatusTextOK
    [] status = 304 -> StatusTextNotModified
    [] status = 404 -> StatusTextNotFound

Responses(url) ==
  [ status : HttpStatuses, bodyLength : {0, 1}, url : FinalUrls(url) ]

responseOk(response) == response.status >= 200 /\ response.status <= 299

NoHttpStatus == 0         \* httpStatus undefined
NoResponse == [ status |-> NoHttpStatus, bodyLength |-> 0, url |-> <<>> ]

\* (a variant that takes any response for a success)
createMonitorResult_byResponse(success, httpStatus, error) ==
  [ success |-> success,
    status |-> IF httpStatus # NoHttpStatus THEN "success" ELSE "error",
    httpStatus |-> httpStatus, error |-> error ]

\* createMonitorResult; error = <<>> stands for an absent error field.
createMonitorResult(success, httpStatus, error) ==
  [ success |-> success, status |-> IF success THEN "success" ELSE "error",
    httpStatus |-> httpStatus, error |-> error ]

NoResult == [ success |-> FALSE, status |-> Undefined, httpStatus |-> NoHttpStatus,
              error |-> <<>> ]

\* checkResponseSuccess of the single-file build
checkResponseSuccess(response, config) ==
  IF ~responseOk(response) THEN FALSE
  ELSE IF Includes(config.url, CLOUDSTUDIO_NET)
       THEN Includes(response.url, CLOUDSTUDIO_NET) \/ Includes(response.url, CLOUDSTUDIO_CLUB)
       ELSE IF response.bodyLength = 0 THEN FALSE
            ELSE TRUE

HttpErrorMessage(response) ==
  HTTP_PREFIX \o NumberToString(response.status) \o COLON_SPACE \o statusText(response.status)

\* The result executeMonitor builds from a response.
ClassifyResponse(b, response, config) ==
  IF b = "single"
  THEN IF responseOk(response)
       THEN IF checkResponseSuccess(response, config)
            THEN createMonitorResult(TRUE, response.status, <<>>)
            ELSE createMonitorResult(FALSE, response.status, RESPONSE_NOT_AS_EXPECTED)
       ELSE createMonitorResult(FALSE, response.status, HttpErrorMessage(response))
  ELSE LET isSuccess == responseOk(response) /\ response.status >= 200 /\ response.status < 400
       IN IF isSuccess
          THEN createMonitorResult(TRUE, response.status, <<>>)
          ELSE createMonitorResult(FALSE, response.status, HttpErrorMessage(response))

\* The message of the error an attempt on a url that does not parse throws:
\* the single-file build throws its own Error before fetch, the modular build
\* lets fetch reject.
InvalidUrlMessage(b, url) ==
  IF b = "single" THEN INVALID_URL_PREFIX \o url
  ELSE FETCH_INVALID_URL_PREFIX \o url \o <<"'">>

NetworkErrorMessage(url) == SEND_ERROR_PREFIX \o url \o <<")">>

\* The retry condition of the catch block.
ShouldRetry_3(retryCount, errorMsg) ==
  retryCount < 3 /\ ~Includes(errorMsg, ABORT_ERROR)

ShouldRetry(retryCount, errorMsg) ==
  retryCount < 2 /\ ~Includes(errorMsg, ABORT_ERROR)

\* saveMonitorHistoryRecord: one record when the KV write succeeds; a failed
\* write is logged and swallowed.
saveMonitorHistoryRecord_twice(hist, monitorId, result, ok) ==
  IF ok
  THEN hist \o << [ monitorId |-> monitorId, status |-> result.status,
                    error |-> result.error, httpStatus |-> result.httpStatus ],
                  [ monitorId |-> monitorId, status |-> result.status,
                    error |-> result.error, httpStatus |-> result.httpStatus ] >>
  ELSE hist

saveMonitorHistoryRecord(hist, monitorId, result, ok) ==
  IF ok
  THEN Append(hist, [ monitorId |-> monitorId, status |-> result.status,
                      error |-> result.error, httpStatus |-> result.httpStatus ])
  ELSE hist

IdleProbe(url) ==
  [ config |-> [ id |-> 1, url |-> url ], pc |-> "idle", retryCount |-> 0,
    response |-> NoResponse, result |-> NoResult ]

NewProbeLog ==
  [ calls |-> 0, returns |-> 0, failedWrites |-> 0, attempts |-> 0, requests |-> 0,
    waits |-> <<>>, failures |-> 0, lastThrown |-> <<>>, lastFailure |-> "none" ]

ProbeInit(url) ==
  /\ probe = IdleProbe(url)
  /\ probeLog = NewProbeLog
  /\ probeHistory = <<>>

\* executeMonitor returns result, having saved its history record.
Return(log, result, response, ok) ==
  /\ probeHistory' = saveMonitorHistoryRecord(probeHistory, probe.config.id, result, ok)
  /\ probe' = [probe EXCEPT !.pc = "returned", !.result = result, !.response = response]
  /\ probeLog' = [log EXCEPT !.returns = @ + 1,
                             !.failedWrites = @ + (IF ok THEN 0 ELSE 1)]

\* The catch block, entered with the thrown error's message.
Catch(log, retryCount, errorMsg, kind, ok) ==
  LET thrown == [log EXCEPT !.failures = @ + 1, !.lastThrown = errorMsg,
                            !.lastFailure = kind]
  IN IF ShouldRetry(retryCount, errorMsg)
     THEN /\ probe' = [probe EXCEPT !.pc = "waiting", !.retryCount = retryCount,
                                    !.response = NoResponse]
          /\ probeLog' = [thrown EXCEPT !.waits = Append(@, 1000 * (retryCount + 1))]
          /\ UNCHANGED probeHistory
     ELSE Return(thrown, createMonitorResult(FALSE, NoHttpStatus, errorMsg), NoResponse, ok)

\* executeMonitor(config, retryCount) up to its first await.
Enter(log, retryCount, ok) ==
  LET entered == [log EXCEPT !.attempts = @ + 1]
  IN IF ~validateUrl(probe.config.url)
     THEN Catch(entered, retryCount, InvalidUrlMessage(build, probe.config.url),
                "invalidUrl", ok)
     ELSE /\ probe' = [probe EXCEPT !.pc = "fetching", !.retryCount = retryCount,
                                    !.response = NoResponse]
          /\ probeLog' = [entered EXCEPT !.requests = @ + 1]
          /\ UNCHANGED probeHistory

\* The scheduler calls executeMonitor(config).
ExecuteMonitor(ok) ==
  /\ probe.pc \in {"idle", "returned"}
  /\ probeLog.calls < MaxProbes
  /\ Enter([probeLog EXCEPT !.calls = @ + 1, !.attempts = 0, !.requests = 0,
                            !.waits = <<>>, !.failures = 0, !.lastThrown = <<>>,
                            !.lastFailure = "none"], 0, ok)
  /\ UNCHANGED <<build, schedVars, apiVars, dataVars>>

\* The backoff wait is over: executeMonitor(config, retryCount + 1).
RetryAfterWait(ok) ==
  /\ probe.pc = "waiting"
  /\ Enter(probeLog, probe.retryCount + 1, ok)
  /\ UNCHANGED <<build, schedVars, apiVars, dataVars>>

\* fetch resolves with a response.
FetchResponds(response, ok) ==
  /\ probe.pc = "fetching"
  /\ IF build = "single"
     THEN \* both branches go on to await response.text()
          /\ probe' = [probe EXCEPT !.pc = "reading", !.response = response]
          /\ UNCHANGED <<probeLog, probeHistory>>
     ELSE Return(probeLog, ClassifyResponse(build, response, probe.config), response, ok)
  /\ UNCHANGED <<build, schedVars, apiVars, dataVars>>

\* response.text() resolves (single-file build).
TextReturns(ok) ==
  /\ probe.pc = "reading"
  /\ Return(probeLog, ClassifyResponse(build, probe.response, probe.config),
            probe.response, ok)
  /\ UNCHANGED <<build, schedVars, apiVars, dataVars>>

\* response.text() rejects (single-file build).
TextFails(ok) ==
  /\ probe.pc = "reading"
  /\ Catch(probeLog, probe.retryCount, BODY_READ_ERROR, "network", ok)
  /\ UNCHANGED <<build, schedVars, apiVars, dataVars>>

\* fetch rejects: the connection failed.
FetchFails(ok) ==
  /\ probe.pc = "fetching"
  /\ Catch(probeLog, probe.retryCount, NetworkErrorMessage(probe.config.url), "network", ok)
  /\ UNCHANGED <<build, schedVars, apiVars, dataVars>>

\* REQUEST_TIMEOUT elapsed: controller.abort() makes fetch reject.
FetchTimesOut(ok) ==
  /\ probe.pc = "fetching"
  /\ Catch(probeLog, probe.retryCount, SIGNAL_ABORTED, "timeout", ok)
  /\ UNCHANGED <<build, schedVars, apiVars, dataVars>>

\* ------------------------------------------------------------ request bodies
\* Create and update requests with every field of the body, behind the auth
\* check and the guard, and the response each is answered with.  In a body
\* Undefined is an absent field and "" the empty string; url <<>>, interval 0
\* and enabled "undefined" are absent fields as above.
NoBody ==
  [ name |-> Undefined, url |-> <<>>, cookie |-> Undefined, headers |-> Undefined,
    method |-> Undefined, interval |-> 0, enabled |-> "undefined" ]

FullBody ==
  [ name |-> "n2", url |-> UrlOther, cookie |-> "c2", headers |-> "h2",
    method |-> "POST", interval |-> MaxInputInterval, enabled |-> "false" ]

\* Create bodies: complete, minimal, and one of each kind that validation
\* is to refuse.
FullCreateBodies ==
  { FullBody,
    [ NoBody EXCEPT !.name = "n1", !.url = UrlShort ],
    [ NoBody EXCEPT !.url = UrlShort ],
    [ NoBody EXCEPT !.name = "", !.url = UrlShort ],
    [ NoBody EXCEPT !.name = "n1" ],
    [ NoBody EXCEPT !.name = "n1", !.url = UrlNoScheme ],
    [ NoBody EXCEPT !.name = "n1", !.url = UrlShort, !.interval = 0 - 1 ],
    [ NoBody EXCEPT !.name = "n1", !.url = UrlShort,
                    !.interval = MAX_MONITOR_INTERVAL + 1 ] }

\* Update bodies: empty, one field each, every field, and one of each kind
\* that validation is to refuse.
FullUpdateBodies ==
  { NoBody, FullBody,
    [ NoBody EXCEPT !.name = "n2" ],
    [ NoBody EXCEPT !.url = UrlOther ],
    [ NoBody EXCEPT !.cookie = "" ],
    [ NoBody EXCEPT !.headers = "h2" ],
    [ NoBody EXCEPT !.method = "POST" ],
    [ NoBody EXCEPT !.interval = MaxInputInterval ],
    [ NoBody EXCEPT !.enabled = "false" ],
    [ NoBody EXCEPT !.url = UrlNoScheme ],
    [ NoBody EXCEPT !.interval = 0 - 1 ],
    [ NoBody EXCEPT !.interval = MAX_MONITOR_INTERVAL + 1 ] }

\* !value of a string field
Falsy(value) == value \in {Undefined, ""}

\* ============================================================ the HTTP API
\* Login, logout, the auth check and the same-origin guard in front of the
\* monitor endpoints, request by request, in both builds.  One client address
\* and one browser are modelled: every login comes from the same IP, and the
\* session cookie a request carries is absent or names session 1.
NoToken == 0
Tokens == 1..MaxSessions

\* The protected requests: POST /api/monitors, PUT and DELETE /api/monitors/:id.
Targets ==
  { [op |-> "create", id |-> 0] }
  \cup { [op |-> op, id |-> id] : op \in {"update", "delete"}, id \in Ids }

\* The value of the Host header, and what new URL(header).host gives for an
\* Origin or Referer header: "none" is an absent header, "unparsable" one that
\* new URL() throws on.
HostName == "app"
RequestHeaders ==
  { [origin |-> "none", referer |-> "none"],
    [origin |-> "app", referer |-> "none"],
    [origin |-> "none", referer |-> "app"],
    [origin |-> "app", referer |-> "evil"],
    [origin |-> "unparsable", referer |-> "none"] }

\* checkCSRF of the single-file build, for the POST, PUT and DELETE requests
\* modelled here.
checkCSRF(headers) ==
  /\ ~(headers.referer = "none" /\ headers.origin = "none")
  /\ headers.referer # "none" => headers.referer = HostName
  /\ headers.origin # "none" => headers.origin = HostName

\* The same-origin guard of a state-changing handler: the single-file build
\* calls checkCSRF, the modular build's handlers make no such check.
PassesGuard(b, headers) == b = "single" => checkCSRF(headers)

\* createSession / createAuthSession
createSession(t) ==
  [ authenticated |-> TRUE, expires |-> t + SessionUnits, createdAt |-> t,
    lastAccess |-> t ]

\* (a variant in which a touch renews the session)
touchSession_sliding(session, t) ==
  [ session EXCEPT !.lastAccess = t, !.expires = t + SessionUnits ]

\* getSession / requireAuth: session.lastAccess = new Date() on the copy read
touchSession(session, t) == [ session EXCEPT !.lastAccess = t ]

\* getSession of the single-file build: session.expires < new Date()
sessionExpired(session, t) == session.expires < t

\* (a variant that never finds a session expired)
validateSession_noExpiry(session, t) == session.expires = session.expires

\* validateSession (authenticated is true in every stored session)
validateSession(session, t) == session.expires > t

\* The failed attempts of a log that lie in the lockout window at time t:
\* attempt.timestamp > now - LOGIN_LOCKOUT_MINUTES, !a.success.
FailedInWindow(log, t) ==
  Cardinality({ k \in 1..Len(log) : ~log[k].success /\ log[k].timestamp > t - LockoutUnits })

\* checkLoginRateLimit
checkLoginRateLimit(log, t) == FailedInWindow(log, t) < MAX_LOGIN_ATTEMPTS

\* ERROR_CODES of the modular build (config/constants.ts)
ERROR_CODES ==
  [ VALIDATION_ERROR |-> 1001, AUTHENTICATION_FAILED |-> 1002,
    RESOURCE_NOT_FOUND |-> 1004, DATABASE_ERROR |-> 2001,
    RATE_LIMIT_EXCEEDED |-> 3001, INTERNAL_ERROR |-> 5001 ]

\* ERROR_CODES of the single-file build
ERROR_CODES_SINGLE_FILE ==
  [ INVALID_PASSWORD |-> 1001, SESSION_EXPIRED |-> 1002, UNAUTHORIZED |-> 1003,
    MONITOR_NOT_FOUND |-> 2001, INVALID_URL |-> 2003, INVALID_INTERVAL |-> 2004,
    DATABASE_ERROR |-> 3001, NETWORK_ERROR |-> 3002, VALIDATION_ERROR |-> 3003 ]

NoCode == 0               \* a response without an error code

\* The code handleLoginAPI puts into its response: the single-file build
\* answers every login handleLogin refuses with INVALID_PASSWORD.
LoginCode(b, outcome) ==
  IF outcome = "ok" THEN NoCode
  ELSE IF b = "single"
  THEN IF outcome = "csrf" THEN ERROR_CODES_SINGLE_FILE.VALIDATION_ERROR
       ELSE ERROR_CODES_SINGLE_FILE.INVALID_PASSWORD
  ELSE ERROR_CODES.AUTHENTICATION_FAILED

\* How handleLoginAPI answers: the single-file build runs checkCSRF, then
\* handleLogin (rate limit, then password); the modular build compares the
\* password only.
LoginOutcome(b, password, headers, log, t) ==
  IF b = "single"
  THEN IF ~checkCSRF(headers) THEN "csrf"
       ELSE IF ~checkLoginRateLimit(log, t) THEN "ratelimit"
       ELSE IF password = "correct" THEN "ok" ELSE "password"
  ELSE IF password = "correct" THEN "ok" ELSE "password"

IdleRequest ==
  [ pc |-> "idle", op |-> "none", token |-> NoToken, id |-> 0,
    headers |-> [origin |-> "none", referer |-> "none"],
    session |-> createSession(0), readAt |-> 0 ]

\* The last response sent (bookkeeping): the request it answers, its HTTP
\* status and error, and what the handler saw on the way.
NoReply ==
  [ op |-> "none", status |-> 0, error |-> "none",
    headers |-> [origin |-> "none", referer |-> "none"], id |-> 0,
    token |-> NoToken, password |-> "none", failedBefore |-> 0, code |-> NoCode,
    body |-> NoBody,
    auth |-> "none", expires |-> 0, at |-> 0, storageDelete |-> "notcalled" ]

ApiInit ==
  /\ sessions = <<>>
  /\ attempts = <<>>
  /\ loginLog = <<>>
  /\ nextSession = 0
  /\ loggedOut = {}
  /\ req = IdleRequest
  /\ reply = NoReply

\* What the API actions leave alone of the scheduler's state.
schedulerState == <<isRunning, executionCount, lastExecutionTime, cronJob, cronHandledAt,
                    cycle, lastCycle, boot, upd, restart, restarts, updates,
                    maxConcurrentMonitors>>

\* handleLoginAPI.  loginLog is bookkeeping: every login that reached the
\* password or the rate limit, with its outcome; attempts is what
\* recordLoginAttempt has stored (its 24-hour cleanup is beyond the clock).
Login(password, headers) ==
  LET outcome == LoginOutcome(build, password, headers, attempts, now)
      entry == [ timestamp |-> now, success |-> outcome = "ok" ]
      id == nextSession + 1
  IN /\ req.pc = "idle"
     /\ Len(loginLog) < MaxLogins
     /\ outcome = "ok" => nextSession < MaxSessions
     /\ sessions' = IF outcome = "ok" THEN (id :> createSession(now)) @@ sessions
                    ELSE sessions
     /\ nextSession' = IF outcome = "ok" THEN id ELSE nextSession
     /\ attempts' = IF build = "single" /\ outcome # "csrf" THEN Append(attempts, entry)
                    ELSE attempts
     /\ loginLog' = IF outcome # "csrf" THEN Append(loginLog, entry) ELSE loginLog
     /\ reply' = [ NoReply EXCEPT
                     !.op = "login", !.headers = headers, !.password = password,
                     !.status = CASE outcome = "ok" -> 200
                                  [] outcome = "csrf" -> 400
                                  [] OTHER -> 401,
                     !.error = IF outcome = "ok" THEN "none" ELSE outcome,
                     !.code = LoginCode(build, outcome),
                     !.failedBefore = FailedInWindow(loginLog, now) ]
     /\ UNCHANGED <<build, probeVars, dataVars, schedulerState, now, monitors, history, nextId,
                    loggedOut, req>>

\* handleLogoutAPI with the session cookie of session token.
Logout(token) ==
  /\ token \in 1..nextSession
  /\ sessions' = [ t \in DOMAIN sessions \ {token} |-> sessions[t] ]
  /\ loggedOut' = loggedOut \cup {token}
  /\ reply' = [ NoReply EXCEPT !.op = "logout", !.status = 200 ]
  /\ UNCHANGED <<build, probeVars, dataVars, schedulerState, now, monitors, history, nextId,
                 attempts, loginLog, nextSession, req>>

\* requireAuth up to the session lookup's read: no cookie, no stored session
\* or an expired session (which is deleted) ends the request with 401.  The
\* single-file build's getSession tests expires < now here and calls
\* validateSession after its write; the modular build's requireAuth calls
\* validateSession here.
AuthRead(op, token, id, headers) ==
  LET found == token # NoToken /\ token \in DOMAIN sessions
      expired == IF build = "single" THEN sessionExpired(sessions[token], now)
                 ELSE ~validateSession(sessions[token], now)
      rejected == [ NoReply EXCEPT !.op = op, !.headers = headers, !.id = id,
                                   !.token = token,
                                   !.status = 401, !.error = "auth" ]
  IN /\ req.pc = "idle"
     /\ op = "create" => nextId < NumIds
     /\ IF ~found
        THEN /\ reply' = [ rejected EXCEPT
                             !.auth = IF token = NoToken THEN "nocookie" ELSE "absent" ]
             /\ UNCHANGED <<sessions, req>>
        ELSE IF expired
        THEN /\ sessions' = [ t \in DOMAIN sessions \ {token} |-> sessions[t] ]
             /\ reply' = [ rejected EXCEPT !.auth = "expired" ]
             /\ UNCHANGED req
        ELSE /\ req' = [ pc |-> "touch", op |-> op, token |-> token, id |-> id,
                         headers |-> headers, session |-> sessions[token],
                         readAt |-> now ]
             /\ UNCHANGED <<sessions, reply>>
     /\ UNCHANGED <<build, probeVars, dataVars, schedulerState, now, monitors, history, nextId,
                    attempts, loginLog, nextSession, loggedOut>>

\* deleteMonitorConfig of the storage layer: the single-file build looks the
\* config up, reports false when it is absent and deletes the history with
\* the config; KVService.deleteMonitorConfig deletes the one key and reports
\* true.
deleteMonitorConfig(b, id) ==
  IF b = "single"
  THEN IF id \in DOMAIN monitors
       THEN [ monitors |-> [ m \in DOMAIN monitors \ {id} |-> monitors[m] ],
              history |-> { h \in history : h.monitorId # id }, ok |-> TRUE ]
       ELSE [ monitors |-> monitors, history |-> history, ok |-> FALSE ]
  ELSE [ monitors |-> [ m \in DOMAIN monitors \ {id} |-> monitors[m] ],
         history |-> history, ok |-> TRUE ]

\* The handler behind the auth check and the guard: create with a valid
\* body, update of the interval, or delete.  The modular delete handler
\* answers 404 for an absent id before it calls the storage layer.
Handle(op, id, answer) ==
  CASE op = "create" ->
         /\ monitors' = ((nextId + 1) :> NewConfig(UrlShort, DEFAULT_MONITOR_INTERVAL, TRUE))
                          @@ monitors
         /\ nextId' = nextId + 1
         /\ reply' = [ answer EXCEPT !.status = 201 ]
         /\ UNCHANGED history
    [] op = "update" ->
         /\ monitors' = IF id \in DOMAIN monitors
                        THEN [ monitors EXCEPT ![id] =
                                 UpdatedConfig(@, <<>>, MaxInputInterval, "undefined") ]
                        ELSE monitors
         /\ reply' = IF id \in DOMAIN monitors THEN [ answer EXCEPT !.status = 200 ]
                     ELSE [ answer EXCEPT !.status = 404, !.error = "notfound" ]
         /\ UNCHANGED <<history, nextId>>
    [] op = "delete" ->
         IF build = "modular" /\ id \notin DOMAIN monitors
         THEN /\ reply' = [ answer EXCEPT !.status = 404, !.error = "notfound" ]
              /\ UNCHANGED <<monitors, history, nextId>>
         ELSE LET deleted == deleteMonitorConfig(build, id)
              IN /\ monitors' = deleted.monitors
                 /\ history' = deleted.history
                 /\ reply' = IF deleted.ok
                             THEN [ answer EXCEPT !.status = 200, !.storageDelete = "true" ]
                             ELSE [ answer EXCEPT !.status = 404, !.error = "notfound",
                                                  !.storageDelete = "false" ]
                 /\ UNCHANGED nextId

\* The rest of the protected request: the session is written back with the
\* new last access time; the single-file build then calls validateSession and
\* checkCSRF; then the handler runs.
AuthTouch ==
  LET touched == (req.token :> touchSession(req.session, now)) @@ sessions
      answer == [ NoReply EXCEPT !.op = req.op, !.headers = req.headers, !.id = req.id,
                                 !.token = req.token ]
      passed == [ answer EXCEPT !.auth = "ok", !.expires = req.session.expires,
                                !.at = now ]
  IN /\ req.pc = "touch"
     /\ req' = IdleRequest
     /\ IF build = "single" /\ ~validateSession(req.session, now)
        THEN /\ sessions' = [ t \in DOMAIN touched \ {req.token} |-> touched[t] ]
             /\ reply' = [ answer EXCEPT !.status = 401, !.error = "auth",
                                         !.auth = "expired" ]
             /\ UNCHANGED <<monitors, history, nextId>>
        ELSE /\ sessions' = touched
             /\ IF ~PassesGuard(build, req.headers)
                THEN /\ reply' = [ passed EXCEPT !.status = 400, !.error = "csrf" ]
                     /\ UNCHANGED <<monitors, history, nextId>>
                ELSE Handle(req.op, req.id, passed)
     /\ UNCHANGED <<build, probeVars, dataVars, schedulerState, now, attempts, loginLog, nextSession,
                    loggedOut>>

\* Time passes between and during requests.
Tick ==
  /\ now < MaxTime
  /\ now' = now + 1
  /\ UNCHANGED <<build, probeVars, dataVars, schedulerState, monitors, history, nextId, apiVars>>

\* ===================================================== config requests in full
\* Create and update requests with every field of the body, behind the auth
\* check and the guard, and the response each is answered with.
\* The config handleCreateMonitorAPI builds from a body at time t.
createdConfig(id, body, t) ==
  [ id |-> id, name |-> body.name, url |-> body.url,
    cookie |-> IF Falsy(body.cookie) THEN "" ELSE body.cookie,
    headers |-> body.headers,
    method |-> IF Falsy(body.method) THEN "GET" ELSE body.method,
    interval |-> IF body.interval = 0 THEN DEFAULT_MONITOR_INTERVAL ELSE body.interval,
    enabled |-> body.enabled # "false",
    createdAt |-> t, updatedAt |-> t,
    lastCheck |-> NoTime, status |-> Undefined, lastError |-> Undefined ]

\* The config handleUpdateMonitorAPI builds from the config it read and a
\* body at time t: the modular build takes headers and method from the body
\* when they are truthy, the single-file build when they are not undefined.
updatedConfig(b, existingConfig, body, t) ==
  [ UpdatedConfig(existingConfig, body.url, body.interval, body.enabled) EXCEPT
      !.name = IF Falsy(body.name) THEN @ ELSE body.name,
      !.cookie = IF body.cookie = Undefined THEN @ ELSE body.cookie,
      !.headers = IF (IF b = "modular" THEN Falsy(body.headers)
                      ELSE body.headers = Undefined)
                  THEN @ ELSE body.headers,
      !.method = IF (IF b = "modular" THEN Falsy(body.method)
                     ELSE body.method = Undefined)
                 THEN @ ELSE body.method,
      !.updatedAt = t ]

\* The response of handleCreateMonitorAPI to a body; ok is the KV write's
\* result.  The single-file build checks name and url and leaves the rest to
\* saveMonitorConfig, whose refusal it reports as a failed save.
createAnswer(b, id, body, t, ok) ==
  IF Falsy(body.name) \/ body.url = <<>>
  THEN [ status |-> 400, saved |-> FALSE,
         code |-> IF b = "modular" THEN ERROR_CODES.VALIDATION_ERROR
                  ELSE ERROR_CODES_SINGLE_FILE.VALIDATION_ERROR ]
  ELSE IF ~CreateValid(b, body.url, body.interval)
  THEN [ status |-> 400, saved |-> FALSE, code |-> ERROR_CODES.VALIDATION_ERROR ]
  ELSE IF ok /\ SaveAccepted(createdConfig(id, body, t))
  THEN [ status |-> 201, saved |-> TRUE, code |-> NoCode ]
  ELSE [ status |-> 500, saved |-> FALSE,
         code |-> IF b = "modular" THEN ERROR_CODES.DATABASE_ERROR
                  ELSE ERROR_CODES_SINGLE_FILE.DATABASE_ERROR ]

\* The response of handleUpdateMonitorAPI to a body, the config found.
updateAnswer(b, existingConfig, body, t, ok) ==
  IF ~UpdateValid(b, body.url, body.interval)
  THEN [ status |-> 400, saved |-> FALSE, code |-> ERROR_CODES.VALIDATION_ERROR ]
  ELSE IF ok /\ SaveAccepted(updatedConfig(b, existingConfig, body, t))
  THEN [ status |-> 200, saved |-> TRUE, code |-> NoCode ]
  ELSE [ status |-> 500, saved |-> FALSE,
         code |-> IF b = "modular" THEN ERROR_CODES.DATABASE_ERROR
                  ELSE ERROR_CODES_SINGLE_FILE.DATABASE_ERROR ]

\* handleCreateMonitorAPI behind the auth check and the guard.
CreateRequest(body, ok) ==
  LET id == nextId + 1
      answer == createAnswer(build, id, body, now, ok)
  IN /\ upd.pc = "idle"
     /\ nextId < MaxConfigs
     /\ monitors' = IF answer.saved THEN (id :> createdConfig(id, body, now)) @@ monitors
                    ELSE monitors
     /\ nextId' = IF answer.saved THEN id ELSE nextId
     /\ reply' = [ NoReply EXCEPT !.op = "create", !.body = body, !.auth = "ok",
                                  !.status = answer.status, !.code = answer.code ]
     /\ UNCHANGED <<build, probeVars, dataVars, schedulerState, now, history, sessions, attempts,
                    loginLog, nextSession, loggedOut, req>>

\* handleUpdateMonitorAPI behind the auth check and the guard, up to
\* getMonitorConfig(id): an absent config ends the request with 404.
UpdateRequestRead(id) ==
  /\ upd.pc = "idle"
  /\ updates < MaxUpdates
  /\ updates' = updates + 1
  /\ IF id \in DOMAIN monitors
     THEN /\ upd' = [ pc |-> "save", id |-> id, existingConfig |-> monitors[id] ]
          /\ UNCHANGED reply
     ELSE /\ reply' = [ NoReply EXCEPT
                          !.op = "update", !.id = id, !.auth = "ok", !.status = 404,
                          !.code = IF build = "modular" THEN ERROR_CODES.RESOURCE_NOT_FOUND
                                   ELSE ERROR_CODES_SINGLE_FILE.MONITOR_NOT_FOUND ]
          /\ UNCHANGED upd
  /\ UNCHANGED <<build, probeVars, dataVars, now, monitors, history, nextId, isRunning,
                 executionCount, lastExecutionTime, cronJob, cronHandledAt, cycle,
                 lastCycle, boot, restart, restarts, maxConcurrentMonitors, sessions,
                 attempts, loginLog, nextSession, loggedOut, req>>

\* handleUpdateMonitorAPI from request.json() on.
UpdateRequestSave(body, ok) ==
  LET answer == updateAnswer(build, upd.existingConfig, body, now, ok)
  IN /\ upd.pc = "save"
     /\ monitors' = IF answer.saved
                    THEN (upd.id :> updatedConfig(build, upd.existingConfig, body, now))
                           @@ monitors
                    ELSE monitors
     /\ upd' = IdleUpdate
     /\ reply' = [ NoReply EXCEPT !.op = "update", !.id = upd.id, !.body = body,
                                  !.auth = "ok", !.status = answer.status,
                                  !.code = answer.code ]
     /\ UNCHANGED <<build, probeVars, dataVars, now, history, nextId, isRunning, executionCount,
                    lastExecutionTime, cronJob, cronHandledAt, cycle, lastCycle, boot,
                    restart, restarts, updates, maxConcurrentMonitors, sessions,
                    attempts, loginLog, nextSession, loggedOut, req>>

\* updateMonitorStatuses for one probe result of a stored config; it stamps
\* updatedAt with the other three fields.
StatusWriteBack(id, outcome) ==
  LET result == [ configId |-> id, status |-> outcome.status, error |-> outcome.error,
                  timestamp |-> now ]
      config == WriteBackConfig(monitors[id], result)
  IN /\ id \in DOMAIN monitors
     /\ monitors[id].lastCheck < now
     /\ monitors' = IF SaveAccepted(config)
                    THEN [ monitors EXCEPT ![id] = [ config EXCEPT !.updatedAt = now ] ]
                    ELSE monitors
     /\ UNCHANGED <<build, probeVars, dataVars, schedulerState, now, history, nextId, apiVars>>

\* ================================================================ statistics
\* generateMonitorStats for one monitor and period 24h, on a cold cache.  Its
\* clock counts HourUnits units to the hour from a local midnight, in a time
\* zone at a whole number of hours from UTC.
BUCKETS_24H == 24

NoStats == [ at |-> NoTime, dataPoints |-> <<>> ]

Sweeps == {"sessions", "history", "logs"}

IdleSweep == [ pc |-> "idle", todo |-> <<>>, cutoffDate |-> 0, failed |-> FALSE ]

\* No maintenance run yet.  deleted is bookkeeping: what the sweeps have
\* deleted, with the time of each deletion.
NoMaintenance ==
  [ pc |-> "idle", runs |-> 0, startedAt |-> NoTime, sweep |-> [ s \in Sweeps |-> IdleSweep ],
    deleted |-> {} ]

\* A cached value that is absent (get returns null).
NoData == 0

\* ------------------------------------------------ logins in flight
\* A handleLogin call between its awaits: pc "record" is the call after
\* checkLoginRateLimit has returned rateLimitOk and, when that allowed it,
\* validateCredentials has compared the password, before recordLoginAttempt.
IdleLogin == [ pc |-> "idle", password |-> "none", rateLimitOk |-> FALSE ]

LoginRequests == 1..NumLoginRequests

\* pending: the calls in flight; evaluated: every password validateCredentials
\* has compared, with the time (bookkeeping); served: calls begun.
NoLogins ==
  [ pending |-> [ r \in LoginRequests |-> IdleLogin ], evaluated |-> <<>>, served |-> 0 ]

\* No cache operation yet.  lastSet holds for each key the entry of its last
\* set since the key was last cleared or deleted; cleared the keys that a
\* clear() removed and that have not been set since; before the cache as it
\* was when a config change or a history append began.
NoCacheOp ==
  [ n |-> 0, op |-> "none", key |-> <<>>, result |-> NoData, found |-> FALSE,
    at |-> NoTime, ok |-> FALSE, lastSet |-> <<>>, cleared |-> {}, before |-> <<>> ]

NoLogCall == [ caller |-> "none", sink |-> "none", outcome |-> "none", stored |-> FALSE ]

NoListing == [ called |-> FALSE, level |-> "all", monitorId |-> 0, offset |-> 0,
               limit |-> 0, logs |-> <<>>, total |-> 0 ]

DataInit ==
  /\ kvHistory = <<>>
  /\ stats = NoStats
  /\ systemLogs = <<>>
  /\ listing = NoListing
  /\ logCall = NoLogCall
  /\ cache = <<>>
  /\ cacheOp = NoCacheOp
  /\ logins = NoLogins
  /\ maint = NoMaintenance

\* hourStart.setMinutes(0, 0, 0)
TopOfHour(t) == t - (t % HourUnits)

\* hourStart.getHours()
getHours(t) == (t \div HourUnits) % 24

\* getMonitorHistoryInRange: the single-file build lists every record of the
\* monitor and keeps those in [startTime, endTime); the modular build lists
\* them in reverse key order and stops at the first whose timestamp is before
\* startTime.  Keys end in a random UUID, so key order is any order.
getMonitorHistoryInRange(b, records, startTime, endTime) ==
  LET n == Len(records)
      inRange(k) == records[k].timestamp >= startTime /\ records[k].timestamp < endTime
      earlier == { k \in 1..n : records[k].timestamp < startTime }
      scanned == IF b = "single" THEN 1..n
                 ELSE { k \in 1..n : \A j \in earlier : j < k }
  IN { k \in scanned : inRange(k) }

\* generateMonitorStats(monitorId, monitorName, '24h') at time t; the data
\* point for loop index i is at position BUCKETS_24H - i.
generateMonitorStats(b, records, t) ==
  [ p \in 1..BUCKETS_24H |->
      LET i == BUCKETS_24H - p
          hourStart == TopOfHour(t - i * HourUnits)
          hourEnd == hourStart + HourUnits
          histories == getMonitorHistoryInRange(b, records, hourStart, hourEnd)
      IN [ label |-> getHours(hourStart),
           success |-> Cardinality({ k \in histories : records[k].status = "success" }),
           failure |-> Cardinality({ k \in histories : records[k].status = "error" }),
           timestamp |-> hourStart ] ]

\* handleMonitorDetailStatsAPI with period 24h at time t.
GenerateStats(t) ==
  /\ \A k \in 1..Len(kvHistory) : kvHistory[k].timestamp <= t
  /\ stats' = [ at |-> t, dataPoints |-> generateMonitorStats(build, kvHistory, t) ]
  /\ UNCHANGED <<build, schedVars, probeVars, apiVars, kvHistory, systemLogs, listing,
                 maint, logCall, cache, cacheOp, logins>>

\* ============================================================== system logs
\* getSystemLogs on a cold cache.  The key of an entry is (system_logs, its
\* timestamp padded, its id), so key order is oldest first; an entry is
\* [id, level, monitorId].  level "all" and monitorId 0 are absent filters.
MAX_SYSTEM_LOGS == 500

logMatches(log, level, monitorId) ==
  /\ level # "all" => log.level = level
  /\ monitorId # 0 => log.monitorId = monitorId

\* The loop of getSystemLogs from entry k of the listing (newest first) on:
\* count counts the matching entries met, logs collects those past the
\* offset, and the loop ends when logs holds limit entries.
RECURSIVE scanSystemLogs(_, _, _, _, _, _, _, _)
scanSystemLogs(entries, k, level, monitorId, offset, limit, count, logs) ==
  IF k > Len(entries) THEN [ logs |-> logs, total |-> count ]
  ELSE IF ~logMatches(entries[k], level, monitorId)
  THEN scanSystemLogs(entries, k + 1, level, monitorId, offset, limit, count, logs)
  ELSE IF count + 1 <= offset
  THEN scanSystemLogs(entries, k + 1, level, monitorId, offset, limit, count + 1, logs)
  ELSE IF Len(logs) + 1 >= limit
  THEN [ logs |-> Append(logs, entries[k]), total |-> count + 1 ]
  ELSE scanSystemLogs(entries, k + 1, level, monitorId, offset, limit, count + 1,
                      Append(logs, entries[k]))

\* kv.list({prefix}, {reverse: true}); the modular build adds limit:
\* MAX_SYSTEM_LOGS.
listNewestFirst(b, stored) ==
  LET n == IF b = "modular" THEN Min(Len(stored), MAX_SYSTEM_LOGS) ELSE Len(stored)
  IN [ k \in 1..n |-> stored[Len(stored) + 1 - k] ]

getSystemLogs(b, stored, level, monitorId, offset, limit) ==
  scanSystemLogs(listNewestFirst(b, stored), 1, level, monitorId, offset, limit, 0, <<>>)

\* handleSystemLogsAPI / handleGetLogsAPI with the query's level, monitorId,
\* page and limit.
ListLogs(level, monitorId, page, limit) ==
  LET offset == (page - 1) * limit
      result == getSystemLogs(build, systemLogs, level, monitorId, offset, limit)
  IN /\ listing' = [ called |-> TRUE, level |-> level, monitorId |-> monitorId,
                     offset |-> offset, limit |-> limit, logs |-> result.logs,
                     total |-> result.total ]
     /\ UNCHANGED <<build, schedVars, probeVars, apiVars, kvHistory, stats, systemLogs,
                    maint, logCall, cache, cacheOp, logins>>

\* ================================================================ the logger
\* What can become of a log write: the KV write succeeds, its result is not
\* ok, db.set rejects, or there is no store to write to (ensureKV throws, the
\* KV service is absent).
LogSinks == {"ok", "notOk", "throws", "missing"}

\* saveSystemLog of the single-file build: the try/catch turns every failure
\* into the value false.
saveSystemLog(stored, logEntry, sink) ==
  IF sink = "ok"
  THEN [ threw |-> FALSE, ok |-> TRUE, stored |-> Append(stored, logEntry) ]
  ELSE [ threw |-> FALSE, ok |-> FALSE, stored |-> stored ]

\* kvService.saveSystemLog as Logger.log of the modular build calls it: a
\* write that does not succeed throws at the call.
kvSaveSystemLog(stored, logEntry, sink) ==
  IF sink = "ok"
  THEN [ threw |-> FALSE, ok |-> TRUE, stored |-> Append(stored, logEntry) ]
  ELSE [ threw |-> TRUE, ok |-> FALSE, stored |-> stored ]

\* (a variant without the catch around the write)
log_rethrows(b, stored, logEntry, sink) ==
  LET saved == IF b = "single" THEN saveSystemLog(stored, logEntry, sink)
               ELSE kvSaveSystemLog(stored, logEntry, sink)
  IN [ threw |-> saved.threw, stored |-> saved.stored ]

\* log of the single-file build (the write is not awaited and its promise has
\* a .catch) and Logger.log of the modular build (the awaited write is inside
\* try/catch): what the caller gets and what the store holds afterwards.
log(b, stored, logEntry, sink) ==
  LET saved == IF b = "single" THEN saveSystemLog(stored, logEntry, sink)
               ELSE kvSaveSystemLog(stored, logEntry, sink)
  IN [ threw |-> FALSE, stored |-> saved.stored ]

\* The places that log: in the single-file build executeMonitor at its start,
\* on a successful probe and on an HTTP error, each inside its try block, and
\* logRequest inside the try block of the request handler; in the modular
\* build a caller awaiting logger.info, warn, error or debug.
LogCallers(b) ==
  IF b = "single" THEN {"probeStart", "probeSuccess", "probeHttpError", "request"}
  ELSE {"logger"}

\* How the caller goes on after the call to log: an exception thrown inside
\* a try block is taken by its catch block.
CallerOutcome(caller, threw) ==
  CASE caller = "probeStart" -> IF threw THEN "catch" ELSE "validateUrl"
    [] caller = "probeSuccess" -> IF threw THEN "catch" ELSE "returnSuccess"
    [] caller = "probeHttpError" -> IF threw THEN "catch" ELSE "returnHttpError"
    [] caller = "request" -> IF threw THEN "errorResponse" ELSE "response"
    [] caller = "logger" -> IF threw THEN "rejected" ELSE "resolved"

\* An operation logs one entry and goes on.
LoggedOperation(caller, level, monitorId, sink) ==
  LET logEntry == [ id |-> Len(systemLogs) + 1, level |-> level, monitorId |-> monitorId ]
      logged == log(build, systemLogs, logEntry, sink)
  IN /\ caller \in LogCallers(build)
     /\ Len(systemLogs) < MaxLogs
     /\ systemLogs' = logged.stored
     /\ logCall' = [ caller |-> caller, sink |-> sink,
                     outcome |-> CallerOutcome(caller, logged.threw),
                     stored |-> logged.stored # systemLogs ]
     /\ UNCHANGED <<build, schedVars, probeVars, apiVars, kvHistory, stats, listing,
                    maint, cache, cacheOp, logins>>

\* ================================================================= the cache
\* MemoryCache and CacheUtils of the modular build.  A key is the sequence of
\* the parts that the code joins with "_".
ALL_MONITOR_CONFIGS == <<"all_monitor_configs">>

CacheKeys ==
  { ALL_MONITOR_CONFIGS, <<"all_monitor_configs", "enabled">>, <<"history", "1">> }

CacheData == 1..2

\* key.startsWith(prefix)
startsWith(key, prefix) ==
  Len(key) >= Len(prefix) /\ SubSeq(key, 1, Len(prefix)) = prefix

\* (a variant that takes an entry for expired as soon as its age reaches the ttl)
expired_atTtl(entry, t) == t - entry.timestamp >= entry.ttl

\* Date.now() - entry.timestamp > entry.ttl
expired(entry, t) == t - entry.timestamp > entry.ttl

\* this.cache.delete(key)
cacheDelete(c, key) == [ k \in DOMAIN c \ {key} |-> c[k] ]

\* MemoryCache.set: ttl || this.defaultTTL
cacheSet(c, key, data, ttl, t) ==
  (key :> [ data |-> data, timestamp |-> t,
            ttl |-> IF ttl = 0 THEN CACHE_TTL_DEFAULT ELSE ttl ]) @@ c

\* MemoryCache.get: the value returned and the map afterwards.
cacheGet(c, key, t) ==
  IF key \notin DOMAIN c THEN [ data |-> NoData, cache |-> c ]
  ELSE IF expired(c[key], t) THEN [ data |-> NoData, cache |-> cacheDelete(c, key) ]
  ELSE [ data |-> c[key].data, cache |-> c ]

\* MemoryCache.has
cacheHas(c, key, t) ==
  IF key \notin DOMAIN c THEN [ found |-> FALSE, cache |-> c ]
  ELSE IF expired(c[key], t) THEN [ found |-> FALSE, cache |-> cacheDelete(c, key) ]
  ELSE [ found |-> TRUE, cache |-> c ]

\* MemoryCache.cleanup
cleanup(c, t) == [ k \in { j \in DOMAIN c : ~expired(c[j], t) } |-> c[k] ]

\* (a variant that removes expired entries only)
clear_expired(c, t) == cleanup(c, t)

\* MemoryCache.clear
clear(c, t) == <<>>

\* (a variant that removes every entry)
clearByPrefix_all(c, prefix) == <<>>

\* CacheUtils.clearByPrefix
clearByPrefix(c, prefix) ==
  [ k \in { j \in DOMAIN c : ~startsWith(j, prefix) } |-> c[k] ]

\* The operations that end in a cache invalidation: the create, update and
\* delete handlers clear the prefix when their KV write succeeded;
\* updateMonitorStatuses clears it after saveMonitorConfig has returned.
ConfigChanges == {"create", "update", "delete", "writeBack"}

CacheStep(op, key) ==
  [ cacheOp EXCEPT !.n = @ + 1, !.op = op, !.key = key, !.at = now,
                   !.result = NoData, !.found = FALSE, !.ok = FALSE, !.before = <<>> ]

CacheFrame == UNCHANGED <<build, schedVars, probeVars, apiVars, kvHistory, stats,
                          systemLogs, listing, maint, logCall, logins>>

\* globalCache.set(key, data, ttl)
CacheSet(key, data, ttl) ==
  /\ build = "modular"
  /\ cacheOp.n < MaxCacheOps
  /\ cache' = cacheSet(cache, key, data, ttl, now)
  /\ cacheOp' = [ CacheStep("set", key) EXCEPT
                    !.lastSet = (key :> cache'[key]) @@ @, !.cleared = @ \ {key} ]
  /\ CacheFrame

\* globalCache.get(key)
CacheGet(key) ==
  LET got == cacheGet(cache, key, now)
  IN /\ build = "modular"
     /\ cacheOp.n < MaxCacheOps
     /\ cache' = got.cache
     /\ cacheOp' = [ CacheStep("get", key) EXCEPT !.result = got.data ]
     /\ CacheFrame

\* globalCache.has(key)
CacheHas(key) ==
  LET had == cacheHas(cache, key, now)
  IN /\ build = "modular"
     /\ cacheOp.n < MaxCacheOps
     /\ cache' = had.cache
     /\ cacheOp' = [ CacheStep("has", key) EXCEPT !.found = had.found ]
     /\ CacheFrame

\* The setInterval callback: globalCache.cleanup()
CacheCleanup ==
  /\ build = "modular"
  /\ cacheOp.n < MaxCacheOps
  /\ cache' = cleanup(cache, now)
  /\ cacheOp' = CacheStep("cleanup", <<>>)
  /\ CacheFrame

\* handleClearCacheAPI past its auth check: globalCache.clear()
ClearCache ==
  /\ build = "modular"
  /\ cacheOp.n < MaxCacheOps
  /\ cache' = clear(cache, now)
  /\ cacheOp' = [ CacheStep("clear", <<>>) EXCEPT
                    !.cleared = @ \cup DOMAIN cache, !.lastSet = <<>> ]
  /\ CacheFrame

\* The end of a create, update or delete handler, or of one turn of
\* updateMonitorStatuses; success is what the KV write returned.
ConfigChanged(op, success) ==
  LET clears == success \/ op = "writeBack"
  IN /\ build = "modular"
     /\ cacheOp.n < MaxCacheOps
     /\ cache' = IF clears THEN clearByPrefix(cache, ALL_MONITOR_CONFIGS) ELSE cache
     /\ cacheOp' = [ CacheStep(op, <<>>) EXCEPT
                       !.ok = success, !.before = cache,
                       !.lastSet = [ k \in DOMAIN @ \cap DOMAIN cache' |-> @[k] ] ]
     /\ CacheFrame

\* saveMonitorHistoryRecord -> kvService.saveMonitorHistory
HistoryAppended(success) ==
  /\ build = "modular"
  /\ cacheOp.n < MaxCacheOps
  /\ cache' = cache
  /\ cacheOp' = [ CacheStep("append", <<>>) EXCEPT !.ok = success, !.before = cache ]
  /\ CacheFrame

\* ============================================================== maintenance
\* performMaintenance of the single-file build: cleanupExpiredSessions,
\* cleanupOldHistory and cleanupOldSystemLogs run side by side, each over the
\* entries its listing returns, each inside its own try/catch.  Here history
\* records and log entries are [id, timestamp, ...].

\* The entries a sweep's db.list returns, in key order, as (key, stamp) pairs.
Listed(s) ==
  CASE s = "sessions" ->
         LET n == Cardinality(DOMAIN sessions)
             keys == CHOOSE q \in [1..n -> DOMAIN sessions] :
                       \A i, j \in 1..n : i < j => q[i] < q[j]
         IN [ k \in 1..n |-> [ key |-> keys[k], stamp |-> sessions[keys[k]].expires ] ]
    [] s = "history" ->
         [ k \in 1..Len(kvHistory) |->
             [ key |-> kvHistory[k].id, stamp |-> kvHistory[k].timestamp ] ]
    [] s = "logs" ->
         [ k \in 1..Len(systemLogs) |->
             [ key |-> systemLogs[k].id, stamp |-> systemLogs[k].timestamp ] ]

\* The cutoff of a sweep started at time t: Date.now() less the retention
\* (sessions are held against the clock as each is examined).
CutoffDate(s, t) ==
  CASE s = "sessions" -> t
    [] s = "history" -> t - HistoryRetentionUnits
    [] s = "logs" -> t - LogRetentionUnits

\* (a variant that also takes an entry exactly at the cutoff for old)
olderThan_orAt(stamp, cutoffDate) == stamp <= cutoffDate

\* session.expires < new Date(), history.timestamp < cutoffDate,
\* log.timestamp < cutoffDate
olderThan(stamp, cutoffDate) == stamp < cutoffDate

\* performMaintenance: Promise.all starts the three sweeps.
MaintenanceStart ==
  /\ build = "single"
  /\ maint.pc = "idle"
  /\ maint.runs < MaxMaintRuns
  /\ maint' = [ maint EXCEPT
                  !.pc = "running", !.runs = @ + 1, !.startedAt = now,
                  !.sweep = [ s \in Sweeps |->
                                [ pc |-> "scanning", todo |-> Listed(s),
                                  cutoffDate |-> CutoffDate(s, now), failed |-> FALSE ] ] ]
  /\ UNCHANGED <<build, schedVars, probeVars, apiVars, kvHistory, stats, systemLogs,
                 listing, logCall, cache, cacheOp, logins>>

\* db.delete(entry.key)
DeleteEntry(s, key) ==
  /\ sessions' = IF s = "sessions" THEN [ t \in DOMAIN sessions \ {key} |-> sessions[t] ]
                 ELSE sessions
  /\ kvHistory' = IF s = "history" THEN SelectSeq(kvHistory, LAMBDA h : h.id # key)
                  ELSE kvHistory
  /\ systemLogs' = IF s = "logs" THEN SelectSeq(systemLogs, LAMBDA l : l.id # key)
                   ELSE systemLogs

\* One turn of a sweep's loop: the next entry is examined and, when old,
\* deleted; after the last entry the sweep returns its count.  With ok false
\* the listing or the delete throws, and the sweep's catch returns 0.
SweepStep(s, ok) ==
  LET sw == maint.sweep[s]
      entry == Head(sw.todo)
      cutoffDate == IF s = "sessions" THEN now ELSE sw.cutoffDate
  IN /\ maint.pc = "running"
     /\ sw.pc = "scanning"
     /\ IF sw.todo = <<>>
        THEN /\ maint' = [ maint EXCEPT !.sweep[s].pc = "returned" ]
             /\ UNCHANGED <<sessions, kvHistory, systemLogs>>
        ELSE IF ~ok
        THEN /\ maint' = [ maint EXCEPT !.sweep[s].pc = "returned",
                                        !.sweep[s].failed = TRUE ]
             /\ UNCHANGED <<sessions, kvHistory, systemLogs>>
        ELSE IF olderThan(entry.stamp, cutoffDate)
        THEN /\ maint' = [ maint EXCEPT
                             !.sweep[s].todo = Tail(sw.todo),
                             !.deleted = @ \cup {[ sweep |-> s, key |-> entry.key,
                                                   stamp |-> entry.stamp,
                                                   at |-> now ]} ]
             /\ DeleteEntry(s, entry.key)
        ELSE /\ maint' = [ maint EXCEPT !.sweep[s].todo = Tail(sw.todo) ]
             /\ UNCHANGED <<sessions, kvHistory, systemLogs>>
     /\ UNCHANGED <<build, probeVars, schedulerState, now, monitors, history, nextId,
                    attempts, loginLog, nextSession, loggedOut, req, reply, stats,
                    listing, logCall, cache, cacheOp, logins>>

\* Promise.all resolves once the three sweeps have returned.
MaintenanceEnd ==
  /\ maint.pc = "running"
  /\ \A s \in Sweeps : maint.sweep[s].pc = "returned"
  /\ maint' = [ maint EXCEPT !.pc = "idle" ]
  /\ UNCHANGED <<build, schedVars, probeVars, apiVars, kvHistory, stats, systemLogs,
                 listing, logCall, cache, cacheOp, logins>>

\* In the scheduler specifications a probe is one step (ProbeReturn) and the
\* requests are those that have passed the auth check; the executor's and
\* the auth layer's own variables stay as they start.
InitBuild(b) == SchedInit(b) /\ ProbeInit(UrlWorkspace) /\ ApiInit /\ DataInit

Init == InitBuild("modular")

InitSingle == InitBuild("single")

\* ============================================ logins served concurrently
\* handleLogin of the single-file build as the runtime interleaves it: every
\* await gives way to other requests.  The requests here come from one
\* address and have passed the CSRF check of handleLoginAPI.

\* handleLogin up to its first write: checkLoginRateLimit lists the stored
\* attempts; if it allows the login, validateCredentials compares the
\* password in the same turn.
LoginCheck(r, password) ==
  LET rateLimitOk == checkLoginRateLimit(attempts, now)
  IN /\ build = "single"
     /\ logins.pending[r].pc = "idle"
     /\ logins.served < MaxLogins
     /\ logins' = [ logins EXCEPT
          !.pending[r] = [ pc |-> "record", password |-> password,
                           rateLimitOk |-> rateLimitOk ],
          !.evaluated = IF rateLimitOk
                        THEN Append(@, [ timestamp |-> now,
                                         valid |-> password = "correct" ])
                        ELSE @,
          !.served = @ + 1 ]
     /\ UNCHANGED <<build, schedVars, probeVars, apiVars, kvHistory, stats, systemLogs,
                    listing, maint, logCall, cache, cacheOp>>

\* handleLogin from there: createAuthSession for an accepted login, then
\* recordLoginAttempt(ip, success), whose timestamp is the time of the write
\* (its 24-hour cleanup is beyond the clock).  The two writes are one step.
LoginRecord(r) ==
  LET call == logins.pending[r]
      success == call.rateLimitOk /\ call.password = "correct"
      entry == [ timestamp |-> now, success |-> success ]
      id == nextSession + 1
  IN /\ call.pc = "record"
     /\ success => nextSession < MaxSessions
     /\ sessions' = IF success THEN (id :> createSession(now)) @@ sessions ELSE sessions
     /\ nextSession' = IF success THEN id ELSE nextSession
     /\ attempts' = Append(attempts, entry)
     /\ loginLog' = Append(loginLog, entry)
     /\ logins' = [ logins EXCEPT !.pending[r] = IdleLogin ]
     /\ UNCHANGED <<build, probeVars, schedulerState, now, monitors, history, nextId,
                    loggedOut, req, reply, kvHistory, stats, systemLogs, listing,
                    maint, logCall, cache, cacheOp>>

InitConcurrentLogin == InitBuild("single")

NextConcurrentLogin ==
  \/ \E r \in LoginRequests, password \in {"correct", "wrong"} : LoginCheck(r, password)
  \/ \E r \in LoginRequests : LoginRecord(r)
  \/ Tick

ConcurrentLoginSpec == InitConcurrentLogin /\ [][NextConcurrentLogin]_vars

\* ----------------------------------------------------- the specifications
Next ==
  \/ Start
  \/ CronFire
  \/ \E c \in CycleIds, m \in Ids, outcome \in ProbeOutcomes, ok \in KvOutcomes :
       ProbeReturn(c, m, outcome, ok)
  \/ \E c \in CycleIds : WriteBackRead(c)
  \/ \E c \in CycleIds, ok \in KvOutcomes : WriteBackSave(c, ok)
  \/ \E body \in CreateBodies : CreateMonitor(body.url, body.interval, body.enabled)
  \/ \E id \in Ids : UpdateRead(id)
  \/ \E body \in UpdateBodies, ok \in KvOutcomes :
       UpdateSave(body.url, body.interval, body.enabled, ok)
  \/ \E id \in Ids : DeleteMonitor(id)
  \/ Advance

Spec == Init /\ [][Next]_vars

\* The single-file build's scheduler under restart requests, with the default
\* config of a fresh store as its only config (so every cycle has one batch).
NextSingle ==
  \/ Start
  \/ CronFire
  \/ \E c \in CycleIds, m \in Ids, outcome \in ProbeOutcomes, ok \in KvOutcomes :
       ProbeReturn(c, m, outcome, ok)
  \/ \E c \in CycleIds : WriteBackRead(c)
  \/ \E c \in CycleIds, ok \in KvOutcomes : WriteBackSave(c, ok)
  \/ RestartStop
  \/ RestartStart
  \/ Advance

SpecSingle == InitSingle /\ [][NextSingle]_vars

\* The probe executor on its own: a config and a build are drawn, and
\* executeMonitor is called on the config MaxProbes times.
InitProbe ==
  \E b \in {"modular", "single"}, url \in ConfigUrls :
    SchedInit(b) /\ ProbeInit(url) /\ ApiInit /\ DataInit

NextProbe ==
  \/ \E ok \in KvOutcomes : ExecuteMonitor(ok)
  \/ \E ok \in KvOutcomes : RetryAfterWait(ok)
  \/ \E response \in Responses(probe.config.url), ok \in KvOutcomes :
       FetchResponds(response, ok)
  \/ \E ok \in KvOutcomes : TextReturns(ok)
  \/ \E ok \in KvOutcomes : TextFails(ok)
  \/ \E ok \in KvOutcomes : FetchFails(ok)
  \/ \E ok \in KvOutcomes : FetchTimesOut(ok)

ProbeSpec == InitProbe /\ [][NextProbe]_vars

\* Logins from one address against the clock, in both builds.
InitApi == \E b \in {"modular", "single"} : InitBuild(b)

NextLogin ==
  \/ \E password \in {"correct", "wrong"}, headers \in RequestHeaders :
       Login(password, headers)
  \/ Tick

LoginSpec == InitApi /\ [][NextLogin]_vars

\* One browser that logs in, sends protected requests and logs out, in both
\* builds.
NextApi ==
  \/ \E headers \in RequestHeaders : Login("correct", headers)
  \/ \E token \in Tokens : Logout(token)
  \/ \E target \in Targets, token \in {NoToken} \cup Tokens, headers \in RequestHeaders :
       AuthRead(target.op, token, target.id, headers)
  \/ AuthTouch
  \/ Tick

ApiSpec == InitApi /\ [][NextApi]_vars

\* Create and update requests with full bodies against a store the scheduler
\* writes probe results back to, in both builds; the store starts with its
\* configs deleted.
InitConfig ==
  \E b \in {"modular", "single"} :
    SchedInitOn(b, <<>>) /\ ProbeInit(UrlWorkspace) /\ ApiInit /\ DataInit

NextConfig ==
  \/ \E body \in FullCreateBodies, ok \in KvOutcomes : CreateRequest(body, ok)
  \/ \E id \in Ids : UpdateRequestRead(id)
  \/ \E body \in FullUpdateBodies, ok \in KvOutcomes : UpdateRequestSave(body, ok)
  \/ \E id \in Ids, outcome \in ProbeOutcomes : StatusWriteBack(id, outcome)
  \/ Tick

ConfigSpec == InitConfig /\ [][NextConfig]_vars

\* Statistics requests over a drawn history, in both builds.
HistoryRecords == [ timestamp : 0..MaxStamp, status : {"success", "error"} ]

InitStats ==
  /\ \E b \in {"modular", "single"} : SchedInit(b) /\ ProbeInit(UrlWorkspace) /\ ApiInit
  /\ \E n \in 0..MaxRecords : kvHistory \in [1..n -> HistoryRecords]
  /\ stats = NoStats
  /\ systemLogs = <<>>
  /\ listing = NoListing
  /\ logCall = NoLogCall
  /\ cache = <<>>
  /\ cacheOp = NoCacheOp
  /\ logins = NoLogins
  /\ maint = NoMaintenance

NextStats == \E t \in (MaxStamp - HourUnits)..MaxStamp : GenerateStats(t)

StatsSpec == InitStats /\ [][NextStats]_vars

\* Log queries over a drawn log store, in both builds.
LogLevels == {"INFO", "ERROR"}

LogStores ==
  UNION { { [ k \in 1..n |-> [ id |-> k, level |-> f[k].level, monitorId |-> f[k].monitorId ] ] :
              f \in [1..n -> [ level : LogLevels, monitorId : Ids ]] } : n \in 0..MaxLogs }

InitLogs ==
  /\ \E b \in {"modular", "single"} : SchedInit(b) /\ ProbeInit(UrlWorkspace) /\ ApiInit
  /\ kvHistory = <<>>
  /\ stats = NoStats
  /\ systemLogs \in LogStores
  /\ listing = NoListing
  /\ logCall = NoLogCall
  /\ cache = <<>>
  /\ cacheOp = NoCacheOp
  /\ logins = NoLogins
  /\ maint = NoMaintenance

NextLogs ==
  \E level \in {"all"} \cup LogLevels, monitorId \in {0} \cup Ids, page \in 1..MaxPage,
     limit \in 1..MaxLimit :
    ListLogs(level, monitorId, page, limit)

LogsSpec == InitLogs /\ [][NextLogs]_vars

\* Maintenance runs of the single-file build against the clock, over a store
\* left by earlier activity: two sessions, two history records and two log
\* entries of different ages.
InitMaintenance ==
  /\ SchedInit("single") /\ ProbeInit(UrlWorkspace)
  /\ attempts = <<>> /\ loginLog = <<>> /\ loggedOut = {}
  /\ req = IdleRequest /\ reply = NoReply
  /\ nextSession = 2
  /\ sessions = (1 :> [ expires |-> 1, lastAccess |-> 0 ])
                  @@ (2 :> [ expires |-> 3, lastAccess |-> 0 ])
  /\ kvHistory = << [ id |-> 1, timestamp |-> 1, status |-> "success" ],
                    [ id |-> 2, timestamp |-> 0, status |-> "error" ] >>
  /\ systemLogs = << [ id |-> 1, timestamp |-> 0, level |-> "INFO", monitorId |-> 1 ],
                     [ id |-> 2, timestamp |-> 2, level |-> "ERROR", monitorId |-> 1 ] >>
  /\ stats = NoStats
  /\ listing = NoListing
  /\ logCall = NoLogCall
  /\ cache = <<>>
  /\ cacheOp = NoCacheOp
  /\ logins = NoLogins
  /\ maint = NoMaintenance

NextMaintenance ==
  \/ MaintenanceStart
  \/ \E s \in Sweeps, ok \in KvOutcomes : SweepStep(s, ok)
  \/ MaintenanceEnd
  \/ Tick

MaintenanceSpec == InitMaintenance /\ [][NextMaintenance]_vars

\* Operations that log, against every fate of the log write, in both builds.
InitLogger ==
  /\ \E b \in {"modular", "single"} : SchedInit(b) /\ ProbeInit(UrlWorkspace) /\ ApiInit
  /\ DataInit

NextLogger ==
  \E caller \in LogCallers(build), level \in LogLevels, monitorId \in Ids, sink \in LogSinks :
    LoggedOperation(caller, level, monitorId, sink)

LoggerSpec == InitLogger /\ [][NextLogger]_vars

\* The cache of the modular build under sets, reads, cleanups, clears and
\* invalidations, against the clock.
InitCache == InitBuild("modular")

NextCache ==
  \/ \E key \in CacheKeys, data \in CacheData, ttl \in 0..1 : CacheSet(key, data, ttl)
  \/ \E key \in CacheKeys : CacheGet(key)
  \/ \E key \in CacheKeys : CacheHas(key)
  \/ CacheCleanup
  \/ ClearCache
  \/ \E op \in ConfigChanges, success \in KvOutcomes : ConfigChanged(op, success)
  \/ \E success \in KvOutcomes : HistoryAppended(success)
  \/ Tick

CacheSpec == InitCache /\ [][NextCache]_vars

\* The scheduler of both builds over a store of two enabled configs, with the
\* configured limit 1 or 10: ticks with one batch and with two, probes and
\* writes that fail, and cycles that throw.
InitBatch ==
  /\ \E b \in {"modular", "single"}, limit \in {1, MAX_CONCURRENT_MONITORS} :
       SchedInitWith(b, (1 :> NewConfig(UrlWorkspace, 1, TRUE))
                        @@ (2 :> NewConfig(UrlOther, 1, TRUE)), {limit})
  /\ ProbeInit(UrlWorkspace) /\ ApiInit /\ DataInit

NextBatches ==
  \/ Start
  \/ StartThrows
  \/ CronFire
  \/ CronFireThrows
  \/ \E c \in CycleIds, m \in Ids, outcome \in ProbeOutcomes, ok \in KvOutcomes :
       ProbeReturn(c, m, outcome, ok)
  \/ \E c \in CycleIds : NextBatch(c)
  \/ \E c \in CycleIds : WriteBackRead(c)
  \/ \E c \in CycleIds, ok \in KvOutcomes : WriteBackSave(c, ok)
  \/ now < MaxBatchTime /\ Advance

BatchSpec == InitBatch /\ [][NextBatches]_vars

\* Every probe returns (it has a timeout and at most three attempts), the
\* pause timer fires, KV reads and writes return, the cron callback is
\* called at its minute and the clock moves.
FairBatchSpec ==
  /\ BatchSpec
  /\ WF_vars(\E c \in CycleIds, m \in Ids, outcome \in ProbeOutcomes, ok \in KvOutcomes :
               ProbeReturn(c, m, outcome, ok))
  /\ WF_vars(\E c \in CycleIds : NextBatch(c))
  /\ WF_vars(\E c \in CycleIds : WriteBackRead(c))
  /\ WF_vars(\E c \in CycleIds, ok \in KvOutcomes : WriteBackSave(c, ok))
  /\ WF_vars(CronFire \/ CronFireThrows)
  /\ WF_vars(now < MaxBatchTime /\ Advance)

\* The scheduler of the modular build left to run, with KV reads and writes
\* that succeed and no API writes: a store of two enabled configs, of
\* interval 1 and 2 (one batch).  A cycle ends within MaxCycleUnits of its start (a probe has its
\* timeout and at most three attempts), so it can run past one minute
\* boundary, whose cron callback the runtime then leaves out.
InitLive ==
  /\ SchedInitWith("modular", (1 :> NewConfig(UrlWorkspace, 1, TRUE))
                               @@ (2 :> NewConfig(UrlOther, 2, TRUE)),
                   {MAX_CONCURRENT_MONITORS})
  /\ ProbeInit(UrlWorkspace) /\ ApiInit /\ DataInit

LiveAdvance ==
  /\ \A c \in CycleIds :
       cycle[c].pc # "idle" => now < cycle[c].tickTime + MaxCycleUnits
  /\ AdvanceTo(MaxLiveTime)

NextLive ==
  \/ Start
  \/ CronFire
  \/ \E c \in CycleIds, m \in Ids, outcome \in ProbeOutcomes :
       ProbeReturn(c, m, outcome, TRUE)
  \/ \E c \in CycleIds : WriteBackRead(c)
  \/ \E c \in CycleIds : WriteBackSave(c, TRUE)
  \/ LiveAdvance

LiveSpec == InitLive /\ [][NextLive]_vars

\* startApplication calls start(), every probe returns, KV reads and writes
\* return, the cron callback is called at its
\* minute and the clock moves.
FairLiveSpec ==
  /\ LiveSpec
  /\ WF_vars(Start)
  /\ WF_vars(CronFire)
  /\ WF_vars(\E c \in CycleIds, m \in Ids, outcome \in ProbeOutcomes :
               ProbeReturn(c, m, outcome, TRUE))
  /\ WF_vars(\E c \in CycleIds : WriteBackRead(c))
  /\ WF_vars(\E c \in CycleIds : WriteBackSave(c, TRUE))
  /\ WF_vars(LiveAdvance)

\* ===================================================== claims: the scheduler

\* "Due" as the specification words it: lastCheck absent, or at least
\* interval minutes between lastCheck and the tick.
DueAsSpecified(config, t) ==
  \/ config.lastCheck = NoTime
  \/ t - config.lastCheck >= config.interval * MinuteUnits

\* C1: in every scheduler tick the monitors probed are exactly the enabled
\* configs (as the tick read them) that are due; a disabled or undue config is
\* not probed and gets no history record in that tick.
C1_ProbedExactlyTheDue ==
  lastCycle.tick > 0 =>
    /\ lastCycle.executed =
         { m \in DOMAIN lastCycle.configs :
             /\ lastCycle.configs[m].enabled
             /\ DueAsSpecified(lastCycle.configs[m], lastCycle.tickTime) }
    /\ \A h \in history : h.tick = lastCycle.tick => h.monitorId \in lastCycle.executed
    /\ \A c \in CycleIds :
         cycle[c].tick = lastCycle.tick => cycle[c].inflight \subseteq lastCycle.executed

\* C2: an enabled config with interval 1 is probed on every tick, and a config
\* that is probed was last checked at least its interval ago (so interval 60
\* is probed at most once an hour), with lastCheck written back from the
\* probe result.
C2_IntervalOneOnEveryTick ==
  lastCycle.tick > 0 =>
    \A m \in DOMAIN lastCycle.configs :
      /\ (lastCycle.configs[m].enabled /\ lastCycle.configs[m].interval = 1)
           => m \in lastCycle.executed
      /\ (m \in lastCycle.executed /\ lastCycle.configs[m].lastCheck # NoTime)
           => lastCycle.tickTime - lastCycle.configs[m].lastCheck
                >= lastCycle.configs[m].interval * MinuteUnits

\* C3: at any time at most one probe is in flight for a given monitor.
C3_OneProbeInFlight ==
  \A m \in Ids : Cardinality({c \in CycleIds : m \in cycle[c].inflight}) <= 1

\* C9: once a stored config's status is success or error, it stays success or
\* error and its lastCheck stays present for as long as the config is stored.
C9_StatusNeverBackToPending ==
  [][ \A m \in DOMAIN monitors :
        (monitors[m].status \in {"success", "error"} /\ m \in DOMAIN monitors')
          => /\ monitors'[m].status \in {"success", "error"}
             /\ monitors'[m].lastCheck # NoTime ]_vars

\* C10: every stored config has no status (pending) exactly when it has no
\* lastCheck.
C10_PendingIffNoLastCheck ==
  \A m \in DOMAIN monitors :
    (monitors[m].status = Undefined) <=> (monitors[m].lastCheck = NoTime)

\* C10 witness: a config the scheduler has written back (status and lastCheck
\* set) while an API update that read it before the write-back is in flight.
C10_Witness ==
  \E m \in DOMAIN monitors :
    /\ monitors[m].status \in {"success", "error"}
    /\ monitors[m].lastCheck # NoTime
    /\ upd.pc = "save" /\ upd.id = m
    /\ upd.existingConfig.status = Undefined

\* ================================================ claims: the probe executor

C5_AtMostThreeAttempts ==
  /\ probeLog.attempts <= 3
  /\ probeLog.failures <= 3
  /\ probe.retryCount <= 2
  /\ probeLog.waits \in {<<>>, <<1000>>, <<1000, 2000>>}
  /\ probeLog.calls > 0 =>
       Len(probeLog.waits) = (IF probe.pc = "waiting" THEN probeLog.attempts
                              ELSE probeLog.attempts - 1)
  /\ (probe.pc = "returned" /\ probeLog.failures = 3)
       => /\ probe.result.status = "error"
          /\ probe.result.error = probeLog.lastThrown

\* C5 witness: three failed attempts, the waits between them 1 s and 2 s, and
\* the error result returned.
C5_Witness ==
  /\ probe.pc = "returned"
  /\ probeLog.failures = 3
  /\ probeLog.lastFailure = "network"
  /\ probeLog.waits = <<1000, 2000>>
  /\ probe.result.status = "error"

\* C6: a probe whose request is aborted by the timeout is not retried: it
\* does not wait for a retry after the abort, and it returns status error
\* with one history record at most.
C6_TimeoutNotRetried ==
  probeLog.lastFailure = "timeout" =>
    /\ probe.pc = "returned"
    /\ probe.result.status = "error"
    /\ Len(probeHistory) <= probeLog.returns

\* C7: a probe of a config whose url does not parse issues no network
\* request and waits for no retry before its error result.
C7_InvalidUrlImmediate ==
  (probeLog.calls > 0 /\ ~validateUrl(probe.config.url)) =>
    /\ probeLog.requests = 0
    /\ probeLog.waits = <<>>
    /\ probeLog.attempts = 1
    /\ probe.pc = "returned"
    /\ probe.result.status = "error"

\* Success of a response as the specification words it.
SuccessAsSpecified(response, config) ==
  /\ response.status >= 200 /\ response.status <= 399
  /\ response.bodyLength > 0
  /\ Includes(config.url, CLOUDSTUDIO_NET)
       => (Includes(response.url, CLOUDSTUDIO_NET) \/ Includes(response.url, CLOUDSTUDIO_CLUB))

\* C8: a probe that received a response is success iff the status is 2xx/3xx,
\* the body is not empty and a cloudstudio.net target ended on cloudstudio.net
\* or cloudstudio.club; a 2xx/3xx response failing that is error with the
\* not-as-expected reason, a status >= 400 is error with HTTP status: text.
C8_ResponseClassification ==
  (probe.pc = "returned" /\ probe.response # NoResponse) =>
    /\ probe.result.success <=> SuccessAsSpecified(probe.response, probe.config)
    /\ (probe.response.status <= 399 /\ ~SuccessAsSpecified(probe.response, probe.config))
         => probe.result.error = RESPONSE_NOT_AS_EXPECTED
    /\ probe.response.status >= 400
         => /\ probe.result.status = "error"
            /\ probe.result.error = HttpErrorMessage(probe.response)

\* ==================================================== claims: stored records

\* C12: every stored history record has status success or error, and a record
\* with status success has no error string.
C12_HistoryRecordsWellFormed ==
  \A k \in 1..Len(probeHistory) :
    /\ probeHistory[k].status \in {"success", "error"}
    /\ probeHistory[k].status = "success" => probeHistory[k].error = <<>>

\* C12 witness: the store holds a success record and an error record that
\* carries an HTTP status.
C12_Witness ==
  /\ \E k \in 1..Len(probeHistory) : probeHistory[k].status = "success"
  /\ \E k \in 1..Len(probeHistory) :
       /\ probeHistory[k].status = "error"
       /\ probeHistory[k].httpStatus # NoHttpStatus
       /\ probeHistory[k].error # <<>>


\* C11: every stored config has an interval within MIN_MONITOR_INTERVAL ..
\* MAX_MONITOR_INTERVAL and a url that parses, whatever create and update
\* requests (valid or not) and scheduler write-backs have run: a request that
\* would break either leaves the store as it was.
C11_StoredConfigsValid ==
  \A m \in DOMAIN monitors :
    /\ MIN_MONITOR_INTERVAL <= monitors[m].interval
    /\ monitors[m].interval <= MAX_MONITOR_INTERVAL
    /\ validateUrl(monitors[m].url)

\* C11 witness: a config whose interval an update has changed and which the
\* scheduler has written back since.
C11_Witness ==
  \E m \in DOMAIN monitors :
    /\ monitors[m].interval = MaxInputInterval
    /\ monitors[m].status \in {"success", "error"}
    /\ updates > 0

\* C13: when DELETE of a config returns success (the config leaves the
\* store), no history record with that monitor id remains in the store.
C13_DeleteRemovesHistory ==
  [][\A id \in Ids :
       (id \in DOMAIN monitors /\ id \notin DOMAIN monitors')
         => ~(\E h \in history' : h.monitorId = id)]_vars

\* ======================================================= claims: the HTTP API

\* C14: after delete(id) of a config the id is absent from the store, and a
\* delete of an id that a delete has already removed changes no stored data
\* and reports success.
C14_DeleteIdempotent ==
  (reply.op = "delete" /\ reply.storageDelete # "notcalled" /\ reply.id \in 1..nextId)
    => (reply.storageDelete = "true" /\ reply.id \notin DOMAIN monitors)

\* C15: a login from an address with MAX_LOGIN_ATTEMPTS failed logins in the
\* lockout window is rejected, whatever the password, and creates no session;
\* stored attempts are never removed or reset by a login.
C15_LockedOutLoginRejected ==
  [][/\ (reply'.op = "login" /\ reply'.failedBefore >= MAX_LOGIN_ATTEMPTS)
          => (reply'.status # 200 /\ sessions' = sessions)
     /\ Len(attempts') >= Len(attempts)
     /\ \A k \in 1..Len(attempts) : attempts'[k] = attempts[k]]_vars

\* C16: a login rejected by the rate limit is stored as a failed attempt; a
\* login is rejected while MAX_LOGIN_ATTEMPTS failures lie in the trailing
\* lockout window; and a login with the correct password succeeds once the
\* address has made no attempt for the length of the window.
C16_LockoutWindow ==
  [][Len(loginLog') = Len(loginLog) + 1 =>
       /\ reply'.error = "ratelimit"
            => attempts' = Append(attempts, [timestamp |-> now, success |-> FALSE])
       /\ FailedInWindow(loginLog, now) >= MAX_LOGIN_ATTEMPTS => reply'.status # 200
       /\ (/\ reply'.password = "correct"
           /\ \A k \in 1..Len(loginLog) : loginLog[k].timestamp + LockoutUnits <= now)
            => reply'.status = 200]_vars

\* C17: a session the lookup or the auth check returns has expires > now at
\* the moment it is returned, and a session the auth check rejects as expired
\* has been deleted.
C17_ReturnedSessionsUnexpired ==
  /\ req.pc = "touch" => req.session.expires > req.readAt
  /\ reply.auth = "ok" => reply.expires > reply.at
  /\ reply.auth = "expired" => reply.token \notin DOMAIN sessions

\* C18: once a logout and the auth checks that raced with it have completed,
\* the session record is absent.
C18_LogoutWins ==
  \A t \in loggedOut : (req.pc = "idle" \/ req.token # t) => t \notin DOMAIN sessions

\* C19: configs and history change only in a request whose session cookie
\* named a stored session that was unexpired when the auth check read it; a
\* request without such a cookie is answered 401 and changes neither.
C19_ChangesNeedSession ==
  [][/\ (monitors' # monitors \/ history' # history)
          => (/\ req.pc = "touch"
              /\ req.token \in Tokens
              /\ req.session.expires > req.readAt)
     /\ reply'.auth \in {"nocookie", "absent", "expired"}
          => (reply'.status = 401 /\ monitors' = monitors /\ history' = history)]_vars

\* C19 witness: a delete of a stored config has been refused because the
\* session it named had expired, after a config was created through the API.
C19_Witness ==
  /\ reply.op = "delete"
  /\ reply.auth = "expired"
  /\ reply.status = 401
  /\ reply.id \in DOMAIN monitors
  /\ nextId = NumIds

\* The guard as the claim states it: a header is supplied, and every
\* supplied header names the host of the Host header.
SameOriginAsSpecified(headers) ==
  /\ headers.origin = HostName \/ headers.referer = HostName
  /\ headers.origin \in {"none", HostName}
  /\ headers.referer \in {"none", HostName}

\* C20: a login, create, update or delete that reaches the same-origin guard
\* passes it iff it carries an Origin or Referer naming the host and none
\* naming another; a request that fails it changes no configs, history,
\* attempts or sessions created.
C20_SameOriginGuard ==
  [][(reply'.op \in {"login", "create", "update", "delete"} /\ reply'.auth \in {"none", "ok"})
       => IF SameOriginAsSpecified(reply'.headers)
          THEN reply'.error # "csrf"
          ELSE /\ reply'.error = "csrf"
               /\ monitors' = monitors /\ history' = history /\ nextId' = nextId
               /\ attempts' = attempts /\ nextSession' = nextSession]_vars

\* C21: a login with a wrong password that the rate limit lets through is
\* answered 401 with code 1002 and is stored as a failed attempt; a login the
\* rate limit rejects is answered 429 or 401 with code 3001.
C21_LoginErrorCodes ==
  [][Len(loginLog') = Len(loginLog) + 1 =>
       /\ (reply'.password = "wrong" /\ FailedInWindow(loginLog, now) < MAX_LOGIN_ATTEMPTS)
            => /\ reply'.status = 401
               /\ reply'.code = 1002
               /\ attempts' = Append(attempts, [timestamp |-> now, success |-> FALSE])
       /\ FailedInWindow(loginLog, now) >= MAX_LOGIN_ATTEMPTS
            => /\ reply'.status \in {429, 401}
               /\ reply'.code = 3001]_vars

\* ================================================= claims: config requests

\* A body validation is to refuse, as the specification words it: a create
\* without a name or url; a supplied url that does not parse; a supplied
\* interval outside MIN_MONITOR_INTERVAL .. MAX_MONITOR_INTERVAL.
InvalidAsSpecified(op, body) ==
  \/ op = "create" /\ (Falsy(body.name) \/ body.url = <<>>)
  \/ body.url # <<>> /\ ~validateUrl(body.url)
  \/ body.interval # 0 /\ ~(/\ MIN_MONITOR_INTERVAL <= body.interval
                            /\ body.interval <= MAX_MONITOR_INTERVAL)

\* C22: a create or update whose body lacks a name or url (create), has a url
\* that does not parse or an interval outside the range is answered 400 with
\* error code 1001 and leaves the stored configs as they were.
C22_InvalidBodyRejected ==
  [][(/\ reply' # reply
      /\ reply'.op \in {"create", "update"}
      /\ reply'.status # 404
      /\ InvalidAsSpecified(reply'.op, reply'.body))
       => /\ reply'.status = 400
          /\ reply'.code = 1001
          /\ monitors' = monitors]_vars

\* The fields of a config an update with the given body is to leave alone.
KeptFields(body) ==
  { "id", "createdAt", "lastCheck", "status", "lastError" }
    \cup (IF body.name = Undefined THEN {"name"} ELSE {})
    \cup (IF body.url = <<>> THEN {"url"} ELSE {})
    \cup (IF body.cookie = Undefined THEN {"cookie"} ELSE {})
    \cup (IF body.headers = Undefined THEN {"headers"} ELSE {})
    \cup (IF body.method = Undefined THEN {"method"} ELSE {})
    \cup (IF body.interval = 0 THEN {"interval"} ELSE {})
    \cup (IF body.enabled = "undefined" THEN {"enabled"} ELSE {})

\* C23: an update that is saved leaves every field the body does not supply
\* among name, url, cookie, headers, method, interval and enabled as stored,
\* never changes id, createdAt, lastCheck, status or lastError, and sets
\* updatedAt to the time of the update.
C23_PartialUpdateFrame ==
  [][(upd.pc = "save" /\ upd'.pc = "idle" /\ reply'.status = 200)
       => /\ \A f \in KeptFields(reply'.body) : monitors'[upd.id][f] = monitors[upd.id][f]
          /\ monitors'[upd.id].updatedAt = now]_vars

\* ======================================================= claims: statistics

\* The records of the drawn history with the given status in [from, to).
RecordsIn(from, to, status) ==
  { k \in 1..Len(kvHistory) :
      /\ kvHistory[k].timestamp >= from
      /\ kvHistory[k].timestamp < to
      /\ kvHistory[k].status = status }

\* C24: the 24h statistics are 24 hourly buckets, oldest first, each starting
\* at the top of an hour, one hour apart, the last being the hour of the
\* request and labelled with it (the first with the hour after it); every
\* history record in the span is counted in the bucket of its hour and in no
\* other, as a success or as a failure by its status.
C24_HourlyBuckets ==
  stats.at # NoTime =>
    LET dp == stats.dataPoints
    IN /\ Len(dp) = 24
       /\ \A p \in 1..24 :
            /\ dp[p].timestamp % HourUnits = 0
            /\ dp[p].label = (dp[p].timestamp \div HourUnits) % 24
            /\ dp[p].success = Cardinality(RecordsIn(dp[p].timestamp,
                                                     dp[p].timestamp + HourUnits, "success"))
            /\ dp[p].failure = Cardinality(RecordsIn(dp[p].timestamp,
                                                     dp[p].timestamp + HourUnits, "error"))
       /\ \A p \in 1..23 : dp[p + 1].timestamp = dp[p].timestamp + HourUnits
       /\ dp[24].timestamp <= stats.at
       /\ stats.at < dp[24].timestamp + HourUnits
       /\ dp[1].label = (dp[24].label + 1) % 24

\* ====================================================== claims: system logs

\* The stored entries that match the last query's filters, newest first.
MatchingNewestFirst ==
  SelectSeq([ k \in 1..Len(systemLogs) |-> systemLogs[Len(systemLogs) + 1 - k] ],
            LAMBDA l : /\ listing.level # "all" => l.level = listing.level
                       /\ listing.monitorId # 0 => l.monitorId = listing.monitorId)

\* C25: with no more than MAX_SYSTEM_LOGS entries stored, a log query returns
\* the matching entries at positions offset+1 .. offset+limit, newest first,
\* and a total equal to the number of stored entries that match, whatever
\* the offset and limit.
C25_LogListing ==
  (listing.called /\ Len(systemLogs) <= MAX_SYSTEM_LOGS) =>
    /\ listing.logs = SubSeq(MatchingNewestFirst, listing.offset + 1,
                             Min(listing.offset + listing.limit, Len(MatchingNewestFirst)))
    /\ listing.total = Len(MatchingNewestFirst)

\* ------------------------------------------------------------------- C26
\* The stamps (expires, timestamp) of the records a sweep's store holds.
StoredStamps(s) == { Listed(s)[k].stamp : k \in 1..Len(Listed(s)) }

\* C26: a maintenance run deletes every session with expires < now, every
\* history record older than the history retention and every system log older
\* than the log retention, where now is the start of the run; what a sweep
\* deletes is expired when it is deleted; and a sweep in which nothing failed
\* goes on and completes whatever happened in the other two.
C26_MaintenanceSweeps ==
  /\ \A d \in maint.deleted : d.stamp < CutoffDate(d.sweep, d.at)
  /\ \A s \in Sweeps :
       /\ (maint.pc = "idle" /\ maint.runs > 0 /\ ~maint.sweep[s].failed)
            => \A stamp \in StoredStamps(s) : ~(stamp < CutoffDate(s, maint.startedAt))
       /\ (maint.pc = "running" /\ maint.sweep[s].pc = "scanning")
            => ENABLED SweepStep(s, TRUE)

\* A first run has ended in which the history sweep failed and left an old
\* record behind, while the other two sweeps completed and deleted theirs.
C26_Witness ==
  /\ maint.pc = "idle" /\ maint.runs = 1
  /\ maint.sweep["history"].failed
  /\ ~maint.sweep["sessions"].failed /\ ~maint.sweep["logs"].failed
  /\ \E stamp \in StoredStamps("history") : stamp < CutoffDate("history", maint.startedAt)
  /\ \E d \in maint.deleted : d.sweep = "sessions"
  /\ \E d \in maint.deleted : d.sweep = "logs"

\* ------------------------------------------------------------------- C27
\* C27: an operation that logs goes on after the call exactly as it does when
\* the log write succeeds, whatever became of the write (written, result not
\* ok, write rejected, no store); only a successful write adds the entry.
C27_LogFailureContained ==
  logCall.caller # "none" =>
    /\ logCall.outcome
         = CallerOutcome(logCall.caller, log(build, <<>>, [ id |-> 1 ], "ok").threw)
    /\ logCall.stored <=> logCall.sink = "ok"

\* A successful probe logged while there was no store to write to, and went
\* on to return its result.
C27_Witness ==
  /\ logCall.caller = "probeSuccess" /\ logCall.sink = "missing"
  /\ logCall.outcome = "returnSuccess" /\ ~logCall.stored

\* ------------------------------------------------------------------- C28
\* The ids of the configs whose results a cycle has collected, in order.
ResultIds(cy) == [ j \in 1..Len(cy.results) |-> cy.results[j].configId ]

\* C28: in every tick at most MAX_CONCURRENT_MONITORS (the configured value)
\* probes are in flight, the probes of a batch are in flight only when the
\* results of all earlier batches are in, no config in flight has already a
\* result in the tick, and when the probes are over the results are those of
\* the due set, one per config.
C28_BatchesBounded ==
  \A c \in CycleIds :
    LET cy == cycle[c]
    IN /\ Cardinality(cy.inflight) <= maxConcurrentMonitors
       /\ cy.pc = "probing" => Len(cy.results) = cy.i
       /\ \A m \in cy.inflight :
            m \notin DOMAIN cy.done /\ m \notin SeqToSet(ResultIds(cy))
       /\ cy.pc \in {"wbRead", "wbSave"} => ResultIds(cy) = cy.queue

\* ------------------------------------------------------------------- C29
\* The fields of a config that the scheduler writes back.
StatusFields(config) ==
  [ lastCheck |-> config.lastCheck, status |-> config.status,
    lastError |-> config.lastError ]

\* The write-back of cycle c is at config m, with no probe of the tick in
\* flight and the results of the whole due set in.
WritingBack(c, m) ==
  LET cy == cycle[c]
  IN /\ cy.pc = "wbSave"
     /\ cy.results[cy.k].configId = m
     /\ cy.inflight = {}
     /\ ResultIds(cy) = cy.queue

\* C29: while a tick's probes are in flight or its next batch is pending, the
\* stored lastCheck, status and lastError of every config are those the tick
\* started with; a step changes them for a config only as the write-back of
\* a tick whose probes have all returned, all batches included.
C29_WriteBackAfterProbes ==
  /\ [](\A c \in CycleIds :
          cycle[c].pc \in {"probing", "pause"} =>
            \A m \in DOMAIN monitors :
              StatusFields(monitors[m]) = StatusFields(lastCycle.configs[m]))
  /\ [][\A m \in DOMAIN monitors :
          StatusFields(monitors'[m]) # StatusFields(monitors[m]) =>
            \E c \in CycleIds : WritingBack(c, m)]_vars

\* The second batch of a tick is in flight: the first batch's result is in
\* and the store still holds what the tick started with.
C29_Witness ==
  \E c \in CycleIds :
    /\ cycle[c].pc = "probing" /\ cycle[c].i > 0
    /\ Len(cycle[c].results) > 0
    /\ \A m \in DOMAIN monitors : monitors[m].lastCheck = NoTime

\* ------------------------------------------------------------------- C30
\* C30: whatever the other probes of a tick do (results with errors, history
\* writes that fail), every probe in flight returns and its config comes to
\* its write-back in that tick; a cycle that throws leaves the scheduler
\* running with its cron job and no cycle in progress, and the tick after it
\* runs.
C30_FailuresContained ==
  /\ \A c \in CycleIds, m \in Ids :
       (cycle[c].pc = "probing" /\ m \in cycle[c].inflight) ~> WritingBack(c, m)
  /\ [](lastCycle.threw /\ executionCount = lastCycle.tick =>
          isRunning /\ cronJob /\ \A c \in CycleIds : cycle[c].pc = "idle")
  /\ \A n \in 1..MaxBatchTime :
       (lastCycle.threw /\ lastCycle.tick = n /\ lastCycle.tickTime < MaxBatchTime)
         ~> executionCount > n

\* The second config of a tick is written back after the first config's
\* probe ended in an error, in a tick that follows a cycle that threw.
C30_Witness ==
  \E c \in CycleIds :
    /\ WritingBack(c, 2)
    /\ cycle[c].results[1].status = "error"
    /\ cycle[c].tick > 1 /\ ~lastCycle.threw
    /\ \A m \in DOMAIN monitors : monitors[m].lastCheck = NoTime

\* ------------------------------------------------------------------- C31
\* C31: a step of the scheduler's write-back (updateMonitorStatuses saving a
\* config) leaves url, interval and enabled of every stored config as they
\* were stored before the step, also when an API update of the config has
\* been saved between the write-back's read and its save.
C31_WriteBackFrame ==
  [][\A c \in CycleIds :
       (cycle[c].pc = "wbSave" /\ cycle'[c] # cycle[c]) =>
         \A m \in DOMAIN monitors :
           /\ m \in DOMAIN monitors'
           /\ monitors'[m].url = monitors[m].url
           /\ monitors'[m].interval = monitors[m].interval
           /\ monitors'[m].enabled = monitors[m].enabled]_vars

\* ------------------------------------------------------------------- C32
\* C32: while the scheduler is stopped (stop() has been called and start()
\* has not been called again) no history record is written and no config's
\* status is written back.
C32_StopDiscardsTick ==
  [][~isRunning => history' = history /\ monitors' = monitors]_vars

C34_RangeQueryExact ==
  \A startTime \in (MaxStamp - 2 * HourUnits)..MaxStamp :
    LET endTime == startTime + HourUnits
    IN getMonitorHistoryInRange(build, kvHistory, startTime, endTime)
         = { k \in 1..Len(kvHistory) :
               /\ startTime <= kvHistory[k].timestamp
               /\ kvHistory[k].timestamp < endTime }

\* ------------------------------------------------------------------- C35
\* C35: after a successful create, update or delete and after a scheduler
\* write-back the cache holds exactly the entries it held before whose key
\* does not start with all_monitor_configs, each unchanged; after a history
\* append it holds what it held before.
C35_PrefixInvalidation ==
  /\ (cacheOp.op \in ConfigChanges /\ cacheOp.ok) =>
       /\ DOMAIN cache
            = { k \in DOMAIN cacheOp.before : ~startsWith(k, ALL_MONITOR_CONFIGS) }
       /\ \A k \in DOMAIN cache : cache[k] = cacheOp.before[k]
  /\ cacheOp.op = "append" => cache = cacheOp.before

\* A successful config change found an entry under the prefix and one under
\* another key, removed the first and kept the second.
C35_Witness ==
  /\ cacheOp.op \in ConfigChanges /\ cacheOp.ok
  /\ <<"all_monitor_configs", "enabled">> \in DOMAIN cacheOp.before
  /\ <<"history", "1">> \in DOMAIN cache
  /\ <<"all_monitor_configs", "enabled">> \notin DOMAIN cache

\* ------------------------------------------------------------------- C36
\* The value get is to return for key at time t: that of the key's last set,
\* while its age does not exceed its ttl.
Live(key, t) ==
  /\ key \in DOMAIN cacheOp.lastSet
  /\ t - cacheOp.lastSet[key].timestamp <= cacheOp.lastSet[key].ttl

\* C36: get returns the value last set for the key if the entry's age does
\* not exceed its ttl and nothing otherwise, has answers accordingly, and an
\* entry found expired by get or has is gone from the map; no entry within
\* its ttl is ever missing from the map (cleanup, get and has remove expired
\* entries only), and after cleanup no expired entry is left.
C36_TtlObserved ==
  /\ cacheOp.op = "get" =>
       /\ cacheOp.result = IF Live(cacheOp.key, cacheOp.at)
                           THEN cacheOp.lastSet[cacheOp.key].data ELSE NoData
       /\ ~Live(cacheOp.key, cacheOp.at) => cacheOp.key \notin DOMAIN cache
  /\ cacheOp.op = "has" =>
       /\ cacheOp.found = Live(cacheOp.key, cacheOp.at)
       /\ ~cacheOp.found => cacheOp.key \notin DOMAIN cache
  /\ \A k \in CacheKeys : Live(k, now) => k \in DOMAIN cache /\ cache[k] = cacheOp.lastSet[k]
  /\ cacheOp.op = "cleanup" =>
       \A k \in DOMAIN cache : cacheOp.at - cache[k].timestamp <= cache[k].ttl

\* get found an entry older than its ttl, before any cleanup, and removed it.
C36_Witness ==
  /\ cacheOp.op = "get" /\ cacheOp.result = NoData
  /\ cacheOp.key \in DOMAIN cacheOp.lastSet
  /\ cacheOp.key \notin DOMAIN cache

\* ------------------------------------------------------------------- C37
\* C37: a key that was in the cache at a clear() and has not been set since
\* is not in the map, and a get or has of it finds nothing.
C37_ClearEmpties ==
  /\ \A k \in cacheOp.cleared : k \notin DOMAIN cache
  /\ (cacheOp.op \in {"get", "has"} /\ cacheOp.key \in cacheOp.cleared) =>
       cacheOp.result = NoData /\ ~cacheOp.found

\* A key set within its ttl was cleared and then asked for.
C37_Witness ==
  /\ cacheOp.op = "get" /\ cacheOp.key \in cacheOp.cleared
  /\ cacheOp.result = NoData /\ cacheOp.at = 0

\* ------------------------------------------------------------------- C39
\* C39: a config deleted through the API is never re-created by the
\* scheduler: no step of the write-back (updateMonitorStatuses saving a
\* config) stores a config under an id that was given out earlier and is
\* absent from the store, also when the DELETE completed between the
\* write-back's read of the config and its save.
C39_DeletedStaysDeleted ==
  [][\A c \in CycleIds :
       (cycle[c].pc = "wbSave" /\ cycle'[c] # cycle[c]) =>
         \A m \in 1..nextId :
           m \notin DOMAIN monitors => m \notin DOMAIN monitors']_vars

\* ------------------------------------------------------------------- C40
\* C40: for one address, at most MAX_LOGIN_ATTEMPTS wrong passwords are
\* compared by validateCredentials within any window of LOGIN_LOCKOUT_MINUTES
\* (the window the rate limit counts: later than t - lockout, up to t), also
\* when the address's login requests are served concurrently.
C40_EvaluationsBounded ==
  \A t \in 0..MaxTime :
    Cardinality({ k \in 1..Len(logins.evaluated) :
                    /\ ~logins.evaluated[k].valid
                    /\ logins.evaluated[k].timestamp > t - LockoutUnits
                    /\ logins.evaluated[k].timestamp <= t }) <= MAX_LOGIN_ATTEMPTS

\* ------------------------------------------------------------------- C38
\* The probe of config m in tick n has returned (its history record is
\* written, KV writes succeeding).
Probed(m, n) == \E h \in history : h.monitorId = m /\ h.tick = n

\* Tick n is over.
TickComplete(n) ==
  n < executionCount \/ (n = executionCount /\ \A c \in CycleIds : cycle[c].pc = "idle")

\* C38: with the scheduler running and KV reads and writes succeeding, every
\* enabled config is eventually probed and its status becomes success or
\* error; of any interval+1 consecutive ticks at least one probes it; and
\* ticks keep coming (after every tick that leaves the clock LiveMargin to
\* run there is a later one), so that it is probed again and again.
C38_EnabledConfigsProbed ==
  /\ \A m \in Ids : <>(monitors[m].status \in {"success", "error"})
  /\ [](\A m \in DOMAIN monitors, n \in 1..executionCount :
          (monitors[m].enabled /\ TickComplete(n + monitors[m].interval)) =>
            \E j \in n..(n + monitors[m].interval) : Probed(m, j))
  /\ \A n \in 0..((MaxLiveTime - LiveMargin) \div MinuteUnits + 1) :
       (executionCount = n /\ now <= MaxLiveTime - LiveMargin)
         ~> executionCount > n

\* The config of interval 2 is probed in a tick, not probed in the two ticks
\* that follow and probed in the third.
C38_Witness ==
  \E n \in 1..MaxLiveTime :
    Probed(2, n) /\ ~Probed(2, n + 1) /\ ~Probed(2, n + 2) /\ Probed(2, n + 3)

====
